---- MODULE Spec2Model ----
(***************************************************************************)
(* SwagFluence: $ref resolution (internal/swagger Resolver) and example    *)
(* synthesis (internal/example Generator) over a heap of Schema structs    *)
(* and Property maps; and the conversion around them: endpoints and page   *)
(* titles (Parser), the request body section (Formatter), Convert and the  *)
(* Confluence client with the pages of the space.                          *)
(*                                                                         *)
(* Representation of Go values                                             *)
(*   - a *Schema is an index into the sequence hs (Nil = 0);               *)
(*   - a map[string]Property is an index into the sequence hm (Nil = 0),   *)
(*     so that two schemas holding the same map alias each other as in Go; *)
(*   - a $ref string is the sequence of its '/'-separated segments, i.e.   *)
(*     strings.Split(ref, "/"); the Go string "" is <<"">>;                *)
(*   - a field name is the sequence of its characters;                     *)
(*   - an error is a record [msg, arg, cause], nil is NoErr;               *)
(*   - a path, method key, summary, operation ID or title is the sequence  *)
(*     of its characters, the Go string "" being <<>>;                     *)
(*   - a page ID is a positive number, the Go string "" for none is NoID.  *)
(***************************************************************************)
EXTENDS Integers, Sequences, FiniteSets, TLC

VARIABLES spec, hs, hm, hs0, hm0, hist, procs,
          cfg, ctx, backend, conv, client

\* The state of a conversion: the configuration, the context of the run,
\* the pages that Confluence holds, Convert and the callers of the client
convVars == <<cfg, ctx, backend, conv, client>>

vars == <<spec, hs, hm, hs0, hm0, hist, procs, cfg, ctx, backend, conv, client>>

\* No conversion runs
NoConverter ==
    /\ cfg = [Enabled |-> FALSE]
    /\ ctx = "live"
    /\ backend = [pages |-> <<>>]
    /\ conv = [pc |-> "off"]
    /\ client = <<>>

----------------------------------------------------------------------------
(* Bounds *)

MaxCalls == 3
MaxItemsDepth == 4
MaxProcCalls == 2

----------------------------------------------------------------------------
(* Strings *)

Nil == 0
EmptyStr == <<"">>

ComponentsPrefix == <<"#", "components", "schemas", "">>
DefinitionsPrefix == <<"#", "definitions", "">>

\* HasPrefix with the prefix written without its final '/'
HasPrefix_NoFinalSlash(s, p) ==
    /\ Len(s) >= Len(p) - 1
    /\ \A i \in 1..(Len(p) - 1) : s[i] = p[i]

\* strings.HasPrefix(s, p) for a prefix p that ends in '/' (last segment "")
HasPrefix(s, p) ==
    /\ Len(s) >= Len(p)
    /\ \A i \in 1..(Len(p) - 1) : s[i] = p[i]

\* strings.TrimPrefix(s, p) for a prefix p that ends in '/'
TrimPrefix(s, p) ==
    IF HasPrefix(s, p) THEN SubSeq(s, Len(p), Len(s)) ELSE s

----------------------------------------------------------------------------
(* Errors *)

NoErr == [msg |-> "nil"]

Errorf(m, a, c) == [msg |-> m, arg |-> a, cause |-> c]

\* The Go runtime's fatal stack overflow of a recursion that does not end
StackOverflow == [msg |-> "stack overflow"]

----------------------------------------------------------------------------
(* Resolver *)

NoSchema == [nil |-> TRUE]

\* spec.Components == nil
NoComponents == [nil |-> TRUE]

\* The copy of a Definition with the Required field left out
SchemaOfDefinition_NoRequired(def) ==
    [Type |-> def.Type, Format |-> "", Ref |-> EmptyStr,
     Properties |-> def.Properties, Required |-> <<>>, Items |-> Nil]

\* The copy of a Definition with the Properties field left out
SchemaOfDefinition_NoProperties(def) ==
    [Type |-> def.Type, Format |-> "", Ref |-> EmptyStr,
     Properties |-> Nil, Required |-> def.Required, Items |-> Nil]

\* The Schema that resolveRef builds from a Definition
SchemaOfDefinition(def) ==
    [Type |-> def.Type, Format |-> "", Ref |-> EmptyStr,
     Properties |-> def.Properties, Required |-> def.Required, Items |-> Nil]

\* resolveRef as the single-file variant looks a reference up: by the last
\* segment, in the components table first and then in the flat table
resolveRef_LastSegmentAnyTable(ref) ==
    LET name == <<ref[Len(ref)]>>
    IN IF /\ spec.Components # NoComponents
          /\ name \in DOMAIN spec.Components.Schemas
       THEN [schema |-> SchemaOfDefinition(spec.Components.Schemas[name]),
             err |-> NoErr]
       ELSE IF name \in DOMAIN spec.Definitions
       THEN [schema |-> SchemaOfDefinition(spec.Definitions[name]),
             err |-> NoErr]
       ELSE [schema |-> NoSchema,
             err |-> Errorf("definition not found", name, NoErr)]

\* resolveRef with the components branch falling through to the flat table
resolveRef_FallThrough(ref) ==
    LET cname == TrimPrefix(ref, ComponentsPrefix)
        dname == IF HasPrefix(ref, ComponentsPrefix) THEN cname
                 ELSE TrimPrefix(ref, DefinitionsPrefix)
    IN IF /\ HasPrefix(ref, ComponentsPrefix)
          /\ spec.Components # NoComponents
          /\ cname \in DOMAIN spec.Components.Schemas
       THEN [schema |-> SchemaOfDefinition(spec.Components.Schemas[cname]),
             err |-> NoErr]
       ELSE IF HasPrefix(ref, ComponentsPrefix) \/ HasPrefix(ref, DefinitionsPrefix)
       THEN IF dname \in DOMAIN spec.Definitions
            THEN [schema |-> SchemaOfDefinition(spec.Definitions[dname]),
                  err |-> NoErr]
            ELSE [schema |-> NoSchema,
                  err |-> Errorf("definition not found", dname, NoErr)]
       ELSE [schema |-> NoSchema,
             err |-> Errorf("unsupported $ref format", ref, NoErr)]

\* Resolver.resolveRef: the new Schema (not yet stored on the heap) or the error
resolveRef(ref) ==
    IF HasPrefix(ref, ComponentsPrefix)
    THEN LET name == TrimPrefix(ref, ComponentsPrefix)
         IN IF /\ spec.Components # NoComponents
               /\ name \in DOMAIN spec.Components.Schemas
            THEN [schema |-> SchemaOfDefinition(spec.Components.Schemas[name]),
                  err |-> NoErr]
            ELSE [schema |-> NoSchema,
                  err |-> Errorf("schema not found", name, NoErr)]
    ELSE IF HasPrefix(ref, DefinitionsPrefix)
    THEN LET name == TrimPrefix(ref, DefinitionsPrefix)
         IN IF name \in DOMAIN spec.Definitions
            THEN [schema |-> SchemaOfDefinition(spec.Definitions[name]),
                  err |-> NoErr]
            ELSE [schema |-> NoSchema,
                  err |-> Errorf("definition not found", name, NoErr)]
    ELSE [schema |-> NoSchema,
          err |-> Errorf("unsupported $ref format", ref, NoErr)]

\* Resolver.resolveProperty on a copy of the property. alloc is the Schema
\* the returned property's Items points to when it was replaced.
resolveProperty(S, prop) ==
    LET r1 == IF prop.Ref # EmptyStr THEN resolveRef(prop.Ref)
              ELSE [schema |-> NoSchema, err |-> NoErr]
        p1 == IF prop.Ref # EmptyStr /\ r1.err = NoErr
              THEN [prop EXCEPT !.Type = r1.schema.Type]
              ELSE prop
    IN IF r1.err # NoErr
       THEN [prop |-> prop, alloc |-> NoSchema, err |-> r1.err]
       ELSE IF p1.Items # Nil /\ S[p1.Items].Ref # EmptyStr
       THEN LET r2 == resolveRef(S[p1.Items].Ref)
            IN IF r2.err # NoErr
               THEN [prop |-> p1, alloc |-> NoSchema, err |-> r2.err]
               ELSE [prop |-> p1, alloc |-> r2.schema, err |-> NoErr]
       ELSE [prop |-> p1, alloc |-> NoSchema, err |-> NoErr]

\* The body of the loop of ResolveSchema over schema.Properties, for the
\* keys not yet visited: stores the Schemas that resolved properties point
\* to and collects resolvedProperties.
RECURSIVE StoreResolved(_, _, _, _)
StoreResolved(S, rp, keys, acc) ==
    IF keys = {} THEN [S |-> S, props |-> acc]
    ELSE LET k == CHOOSE x \in keys : TRUE
         IN IF rp[k].alloc # NoSchema
            THEN StoreResolved(Append(S, rp[k].alloc), rp, keys \ {k},
                    [acc EXCEPT ![k] = [rp[k].prop EXCEPT !.Items = Len(S) + 1]])
            ELSE StoreResolved(S, rp, keys \ {k},
                    [acc EXCEPT ![k] = rp[k].prop])

\* The loop with `continue` in place of `return nil, err`
PropertiesLoop_SkipFailing(S, M, sid) ==
    LET old == M[S[sid].Properties]
        rp == [k \in DOMAIN old |-> resolveProperty(S, old[k])]
        good == {k \in DOMAIN old : rp[k].err = NoErr}
        st == StoreResolved(S, rp, good, [k \in good |-> old[k]])
    IN {[S |-> st.S, props |-> st.props, err |-> NoErr]}

\* ResolveSchema, the loop over schema.Properties (a Go map: the iteration
\* order is not fixed, so any failing key may be the one that is reported).
\* Outcomes are [S, props, err]; props is resolvedProperties.
PropertiesLoop(S, M, sid) ==
    LET old == M[S[sid].Properties]
        rp == [k \in DOMAIN old |-> resolveProperty(S, old[k])]
        failing == {k \in DOMAIN old : rp[k].err # NoErr}
    IN IF failing # {}
       THEN {[S |-> S, props |-> old,
              err |-> Errorf("failed to resolve property", k, rp[k].err)] :
                 k \in failing}
       ELSE LET st == StoreResolved(S, rp, DOMAIN old, old)
            IN {[S |-> st.S, props |-> st.props, err |-> NoErr]}

\* len(schema.Properties) > 0
HasProperties(S, M, sid) ==
    /\ S[sid].Properties # Nil
    /\ DOMAIN M[S[sid].Properties] # {}

\* The resolved properties written into the map the schema already holds
AssignProperties_InPlace(S, M, sid, props) ==
    [S |-> S,
     M |-> [M EXCEPT ![S[sid].Properties] = props]]

\* schema.Properties = resolvedProperties
AssignProperties(S, M, sid, props) ==
    [S |-> [S EXCEPT ![sid].Properties = Len(M) + 1],
     M |-> Append(M, props)]

\* Resolver.ResolveSchema: the set of outcomes [S, M, res, err] of a call on
\* the schema at sid in the heap (S, M). fuel bounds the Items chain.
RECURSIVE ResolveSchema(_, _, _, _)
ResolveSchema(S, M, sid, fuel) ==
    IF sid = Nil
    THEN {[S |-> S, M |-> M, res |-> Nil, err |-> NoErr]}
    ELSE IF fuel = 0
    THEN {[S |-> S, M |-> M, res |-> Nil, err |-> StackOverflow]}
    ELSE IF S[sid].Ref # EmptyStr
    THEN LET r == resolveRef(S[sid].Ref)
         IN IF r.err # NoErr
            THEN {[S |-> S, M |-> M, res |-> Nil, err |-> r.err]}
            ELSE {[S |-> Append(S, r.schema), M |-> M,
                   res |-> Len(S) + 1, err |-> NoErr]}
    ELSE LET afterProps ==
                IF HasProperties(S, M, sid)
                THEN {IF o.err # NoErr
                      THEN [S |-> S, M |-> M, err |-> o.err]
                      ELSE LET a == AssignProperties(o.S, M, sid, o.props)
                           IN [S |-> a.S, M |-> a.M, err |-> NoErr] :
                        o \in PropertiesLoop(S, M, sid)}
                ELSE {[S |-> S, M |-> M, err |-> NoErr]}
             AfterItems(p) ==
                IF p.S[sid].Items # Nil
                THEN {IF o.err # NoErr
                      THEN [S |-> o.S, M |-> o.M, res |-> Nil,
                            err |-> Errorf("failed to resolve items", <<>>, o.err)]
                      ELSE [S |-> [o.S EXCEPT ![sid].Items = o.res],
                            M |-> o.M, res |-> sid, err |-> NoErr] :
                        o \in ResolveSchema(p.S, p.M, p.S[sid].Items, fuel - 1)}
                ELSE {[S |-> p.S, M |-> p.M, res |-> sid, err |-> NoErr]}
         IN UNION {IF p.err # NoErr
                   THEN {[S |-> p.S, M |-> p.M, res |-> Nil, err |-> p.err]}
                   ELSE AfterItems(p) : p \in afterProps}

\* Variant: the segment before the last one
ExtractRefName_Parent(ref) ==
    IF Len(ref) > 1 THEN ref[Len(ref) - 1] ELSE ref[1]

\* Variant: the first segment of the reference string
ExtractRefName_First(ref) ==
    ref[1]

\* ExtractRefName: the last segment of strings.Split(ref, "/")
ExtractRefName(ref) ==
    IF Len(ref) > 0 THEN ref[Len(ref)] ELSE ref

----------------------------------------------------------------------------
(* Example generator. A Go string value is the sequence of its pieces: a   *)
(* literal of the source is one piece, a field name is its characters.     *)

MaxDepth == 10

UpperChars == <<"A", "B", "C", "D", "E", "F", "G", "H", "I", "J", "K", "L", "M",
                "N", "O", "P", "Q", "R", "S", "T", "U", "V", "W", "X", "Y", "Z">>
LowerChars == <<"a", "b", "c", "d", "e", "f", "g", "h", "i", "j", "k", "l", "m",
                "n", "o", "p", "q", "r", "s", "t", "u", "v", "w", "x", "y", "z">>

\* strings.ToLower
ToLower(s) ==
    [i \in 1..Len(s) |->
        IF \E j \in 1..26 : UpperChars[j] = s[i]
        THEN LowerChars[CHOOSE j \in 1..26 : UpperChars[j] = s[i]]
        ELSE s[i]]

\* strings.Contains
Contains(s, sub) ==
    \E i \in 0..(Len(s) - Len(sub)) :
        \A j \in 1..Len(sub) : s[i + j] = sub[j]

NilValue == [kind |-> "nil"]
StringValue(s) == [kind |-> "string", v |-> s]
IntValue(n) == [kind |-> "int", v |-> n]
FloatValue(n) == [kind |-> "float", v |-> n]
BoolValue(b) == [kind |-> "bool", v |-> b]
ListValue(l) == [kind |-> "list", v |-> l]
MapValue(m) == [kind |-> "map", v |-> m]

\* Variant: the name and id tests read the field name as it is written
generateStringValue_CaseSensitive(fieldName, prop) ==
    LET fieldLower == ToLower(fieldName)
    IN IF prop.Format = "date" THEN <<"2024-01-15">>
       ELSE IF prop.Format = "date-time" THEN <<"2024-01-15T10:30:00Z">>
       ELSE IF prop.Format = "email" \/ Contains(fieldLower, <<"e", "m", "a", "i", "l">>)
       THEN <<"user@example.com">>
       ELSE IF Contains(fieldName, <<"n", "a", "m", "e">>)
       THEN <<"Sample ">> \o fieldName
       ELSE IF Contains(fieldName, <<"i", "d">>)
       THEN <<"123e4567-e89b-12d3-a456-426614174000">>
       ELSE <<"string">>

\* Generator.generateStringValue
generateStringValue(fieldName, prop) ==
    LET fieldLower == ToLower(fieldName)
    IN IF prop.Format = "date" THEN <<"2024-01-15">>
       ELSE IF prop.Format = "date-time" THEN <<"2024-01-15T10:30:00Z">>
       ELSE IF prop.Format = "email" \/ Contains(fieldLower, <<"e", "m", "a", "i", "l">>)
       THEN <<"user@example.com">>
       ELSE IF Contains(fieldLower, <<"n", "a", "m", "e">>)
       THEN <<"Sample ">> \o fieldName
       ELSE IF Contains(fieldLower, <<"i", "d">>)
       THEN <<"123e4567-e89b-12d3-a456-426614174000">>
       ELSE <<"string">>

\* Generator.buildStringExample
buildStringExample(schema) ==
    IF schema.Format = "date" THEN <<"2024-01-15">>
    ELSE IF schema.Format = "date-time" THEN <<"2024-01-15T10:30:00Z">>
    ELSE IF schema.Format = "email" THEN <<"user@example.com">>
    ELSE <<"string">>

RECURSIVE buildExample(_, _, _, _)

\* Variant: the reference is looked at before the explicit example
buildPropertyExample_RefFirst(S, M, fieldName, prop, depth) ==
    IF prop.Ref # EmptyStr
    THEN StringValue(<<"<">> \o <<ExtractRefName(prop.Ref)>> \o <<">">>)
    ELSE IF prop.Example # NilValue THEN prop.Example
    ELSE IF prop.Type = "array" /\ prop.Items # Nil
    THEN ListValue(<<buildExample(S, M, prop.Items, depth + 1)>>)
    ELSE CASE prop.Type = "string" -> StringValue(generateStringValue(fieldName, prop))
           [] prop.Type \in {"integer", "number"} -> IntValue(0)
           [] prop.Type = "boolean" -> BoolValue(FALSE)
           [] prop.Type = "object" -> MapValue(<<>>)
           [] OTHER -> NilValue

\* Generator.buildPropertyExample
buildPropertyExample(S, M, fieldName, prop, depth) ==
    IF prop.Example # NilValue THEN prop.Example
    ELSE IF prop.Ref # EmptyStr
    THEN StringValue(<<"<">> \o <<ExtractRefName(prop.Ref)>> \o <<">">>)
    ELSE IF prop.Type = "array" /\ prop.Items # Nil
    THEN ListValue(<<buildExample(S, M, prop.Items, depth + 1)>>)
    ELSE CASE prop.Type = "string" -> StringValue(generateStringValue(fieldName, prop))
           [] prop.Type \in {"integer", "number"} -> IntValue(0)
           [] prop.Type = "boolean" -> BoolValue(FALSE)
           [] prop.Type = "object" -> MapValue(<<>>)
           [] OTHER -> NilValue

\* Variant: a field whose example is nil is left out of the object
buildObjectExample_SkipNil(S, M, sid, depth) ==
    IF S[sid].Properties # Nil
    THEN MapValue([name \in {k \in DOMAIN M[S[sid].Properties] :
                        buildPropertyExample(S, M, k, M[S[sid].Properties][k],
                                             depth + 1) # NilValue} |->
            buildPropertyExample(S, M, name, M[S[sid].Properties][name], depth + 1)])
    ELSE MapValue(<<>>)

\* Generator.buildObjectExample
buildObjectExample(S, M, sid, depth) ==
    IF S[sid].Properties # Nil
    THEN MapValue([name \in DOMAIN M[S[sid].Properties] |->
            buildPropertyExample(S, M, name, M[S[sid].Properties][name], depth + 1)])
    ELSE MapValue(<<>>)

\* Variant: the example of an array has two elements
buildArrayExample_Twice(S, M, sid, depth) ==
    IF S[sid].Items = Nil THEN ListValue(<<>>)
    ELSE ListValue(<<buildExample(S, M, S[sid].Items, depth + 1),
                     buildExample(S, M, S[sid].Items, depth + 1)>>)

\* Generator.buildArrayExample
buildArrayExample(S, M, sid, depth) ==
    IF S[sid].Items = Nil THEN ListValue(<<>>)
    ELSE ListValue(<<buildExample(S, M, S[sid].Items, depth + 1)>>)

\* Variant: "number" is not among the cases of the switch
buildExample_NoNumber(S, M, sid, depth) ==
    IF sid = Nil \/ depth > MaxDepth THEN NilValue
    ELSE CASE S[sid].Type = "object" -> buildObjectExample(S, M, sid, depth)
           [] S[sid].Type = "array" -> buildArrayExample(S, M, sid, depth)
           [] S[sid].Type = "string" -> StringValue(buildStringExample(S[sid]))
           [] S[sid].Type = "integer" -> IntValue(0)
           [] S[sid].Type = "boolean" -> BoolValue(FALSE)
           [] OTHER -> NilValue

\* Generator.buildExample
buildExample(S, M, sid, depth) ==
    IF sid = Nil \/ depth > MaxDepth THEN NilValue
    ELSE CASE S[sid].Type = "object" -> buildObjectExample(S, M, sid, depth)
           [] S[sid].Type = "array" -> buildArrayExample(S, M, sid, depth)
           [] S[sid].Type = "string" -> StringValue(buildStringExample(S[sid]))
           [] S[sid].Type = "integer" -> IntValue(0)
           [] S[sid].Type = "number" -> FloatValue(0)
           [] S[sid].Type = "boolean" -> BoolValue(FALSE)
           [] OTHER -> NilValue

----------------------------------------------------------------------------
(* Structural values of heap objects *)

NilTree == [nil |-> TRUE]
CutTree == [cut |-> TRUE]

RECURSIVE SchemaTree(_, _, _, _)
PropertyTree(S, M, prop, fuel) ==
    [prop EXCEPT !.Items = SchemaTree(S, M, prop.Items, fuel)]

PropertiesTree(S, M, mid, fuel) ==
    IF mid = Nil THEN NilTree
    ELSE [k \in DOMAIN M[mid] |-> PropertyTree(S, M, M[mid][k], fuel)]

\* The tree a *Schema denotes: pointers replaced by what they point to
SchemaTree(S, M, sid, fuel) ==
    IF sid = Nil THEN NilTree
    ELSE IF fuel = 0 THEN CutTree
    ELSE [Type |-> S[sid].Type, Format |-> S[sid].Format, Ref |-> S[sid].Ref,
          Properties |-> PropertiesTree(S, M, S[sid].Properties, fuel - 1),
          Required |-> S[sid].Required,
          Items |-> SchemaTree(S, M, S[sid].Items, fuel - 1)]

----------------------------------------------------------------------------
(* Documents: the Specs and input schemas the calls are made on *)

fName == <<"n", "a", "m", "e">>
fAddress == <<"a", "d", "d", "r", "e", "s", "s">>
fStreet == <<"s", "t", "r", "e", "e", "t">>
fCity == <<"c", "i", "t", "y">>
fId == <<"i", "d">>

nUser == <<"User">>
nAddress == <<"Address">>

rCUser == <<"#", "components", "schemas", "User">>
rCAddress == <<"#", "components", "schemas", "Address">>
rCMissing == <<"#", "components", "schemas", "Missing">>
rDUser == <<"#", "definitions", "User">>
rDAddress == <<"#", "definitions", "Address">>
rDMissing == <<"#", "definitions", "Missing">>
rBare == <<"User">>
rNoSlash == <<"#", "definitions">>
rExternal == <<"other.json#", "definitions", "User">>
rNested == <<"#", "definitions", "User", "Address">>

SupportedRefs == {rCUser, rCAddress, rCMissing, rDUser, rDAddress, rDMissing, rNested}
UnsupportedRefs == {rBare, rNoSlash, rExternal}
RefSet == SupportedRefs \cup UnsupportedRefs

\* A Property as json.Unmarshal builds it
Prop(type, ref, items) ==
    [Type |-> type, Description |-> "", Format |-> "", Ref |-> ref,
     Items |-> items, Example |-> NilValue, MinLength |-> 0]

\* A Schema as json.Unmarshal builds it
Sch(type, ref, props, items) ==
    [Type |-> type, Format |-> "", Ref |-> ref, Properties |-> props,
     Required |-> <<>>, Items |-> items]

\* A Definition as json.Unmarshal builds it
Def(type, props, required) ==
    [Type |-> type, Properties |-> props, Required |-> required, Ref |-> EmptyStr]

\* Heap places of the document's objects
mAddress == 1
mUser == 2
mLegacyUser == 3
mA == 4
mB == 5
sA == 1
sAItems == 2
sUserTags == 3
sAPropItems == 4
sB == 5

Roots == {sA, sB}

DefAddress == Def("object", mAddress, <<fStreet>>)
DefUser == Def("object", mUser, <<fName>>)
DefLegacyUser == Def("object", mLegacyUser, <<>>)

NoTable == [n \in {} |-> DefUser]

\* The definition tables of a document, by dialect
Layouts == {"oas3", "swagger2", "mixed", "both", "bare"}

SpecOf(layout) ==
    CASE layout = "oas3" ->
           [Components |-> [Schemas |-> (nUser :> DefUser) @@ (nAddress :> DefAddress)],
            Definitions |-> NoTable]
      [] layout = "swagger2" ->
           [Components |-> NoComponents,
            Definitions |-> (nUser :> DefUser) @@ (nAddress :> DefAddress)]
      [] layout = "mixed" ->
           [Components |-> [Schemas |-> (nUser :> DefUser)],
            Definitions |-> (nAddress :> DefAddress)]
      [] layout = "both" ->
           [Components |-> [Schemas |-> (nUser :> DefUser) @@ (nAddress :> DefAddress)],
            Definitions |-> (nUser :> DefLegacyUser)]
      [] layout = "bare" ->
           [Components |-> [Schemas |-> NoTable],
            Definitions |-> NoTable]

\* The property of User that the documents vary
UserProps == {Prop("string", EmptyStr, Nil),
              Prop("", rCAddress, Nil),
              Prop("", rDAddress, Nil),
              Prop("", rCMissing, Nil),
              Prop("array", EmptyStr, sUserTags)}

\* A property that sets $ref next to annotations of its own
AnnotatedRefProp ==
    [Type |-> "string", Description |-> "home", Format |-> "email",
     Ref |-> rCAddress, Items |-> Nil,
     Example |-> StringValue(<<"10 Main St">>), MinLength |-> 3]

\* The property of the inline input schema that the documents vary
InputProps == {Prop("integer", EmptyStr, Nil),
               Prop("", rCUser, Nil),
               Prop("", rDAddress, Nil),
               Prop("", rBare, Nil),
               Prop("array", EmptyStr, sAPropItems),
               AnnotatedRefProp}

\* The element type of the input schema that the documents vary
InputItems == {Sch("string", EmptyStr, Nil, Nil),
               Sch("", rCUser, Nil, Nil),
               Sch("", rDUser, Nil, Nil),
               Sch("", rCMissing, Nil, Nil)}

\* The input schema A: a bare reference, or an inline schema
InputSchemas ==
    {Sch("", r, Nil, Nil) : r \in RefSet} \cup
    {Sch("object", EmptyStr, mA, Nil), Sch("array", EmptyStr, Nil, sAItems),
     Sch("object", EmptyStr, mA, sAItems)}

\* The input schema B
OtherSchemas == {Sch("", rCUser, Nil, Nil), Sch("object", EmptyStr, mB, Nil)}

SchemaHeap(a, aItems, b) ==
    <<a, aItems, Sch("", rCAddress, Nil, Nil), Sch("", rCUser, Nil, Nil), b>>

MapHeap(userProp, inputProp) ==
    << (fStreet :> Prop("string", EmptyStr, Nil)) @@ (fCity :> Prop("string", EmptyStr, Nil)),
       (fName :> Prop("string", EmptyStr, Nil)) @@ (fAddress :> userProp),
       (fId :> Prop("integer", EmptyStr, Nil)) @@ (fName :> Prop("string", EmptyStr, Nil)),
       (fName :> Prop("string", EmptyStr, Nil)) @@ (fAddress :> inputProp),
       (fId :> Prop("", rDUser, Nil)) >>

\* The document as loaded: the Spec and the input schemas on the heap
Document(layout, userProp, inputProp, a, aItems, b) ==
    /\ spec = SpecOf(layout)
    /\ hs = SchemaHeap(a, aItems, b)
    /\ hm = MapHeap(userProp, inputProp)
    /\ hs0 = hs
    /\ hm0 = hm

Init ==
    \E layout \in Layouts, userProp \in UserProps, inputProp \in InputProps,
       a \in InputSchemas, aItems \in InputItems, b \in OtherSchemas :
        /\ a.Items = Nil => aItems = Sch("string", EmptyStr, Nil, Nil)
        /\ a.Properties = Nil => inputProp = Prop("integer", EmptyStr, Nil)
        /\ Document(layout, userProp, inputProp, a, aItems, b)
        /\ hist = <<>>
        /\ procs = <<>>
        /\ NoConverter

----------------------------------------------------------------------------
(* Sequential use: one call after the other, as the formatter makes them *)

\* resolver.ResolveSchema(schema) on an input schema of the document
CallResolveSchema(sid) ==
    /\ Len(hist) < MaxCalls
    /\ \E o \in ResolveSchema(hs, hm, sid, MaxItemsDepth) :
          /\ hs' = o.S
          /\ hm' = o.M
          /\ hist' = Append(hist,
                [op |-> "ResolveSchema", arg |-> sid,
                 before |-> SchemaTree(hs, hm, sid, MaxItemsDepth),
                 res |-> o.res, err |-> o.err,
                 tree |-> SchemaTree(o.S, o.M, o.res, MaxItemsDepth)])
    /\ UNCHANGED <<spec, hs0, hm0, procs>>
    /\ UNCHANGED convVars

\* The schemas a caller holds: the inputs and what ResolveSchema returned
Held == Roots \cup {hist[i].res : i \in {j \in 1..Len(hist) : hist[j].res # Nil}}

\* exampleGen.GenerateExampleJSON(schema): the value it marshals
CallBuildExample(sid) ==
    /\ Len(hist) < MaxCalls
    /\ hist' = Append(hist,
          [op |-> "buildExample", arg |-> sid,
           before |-> SchemaTree(hs, hm, sid, MaxItemsDepth),
           res |-> Nil, err |-> NoErr,
           val |-> buildExample(hs, hm, sid, 0)])
    /\ UNCHANGED <<spec, hs, hm, hs0, hm0, procs>>
    /\ UNCHANGED convVars

Next ==
    \/ \E sid \in Roots : CallResolveSchema(sid)
    \/ \E sid \in Held : CallBuildExample(sid)

Spec == Init /\ [][Next]_vars

----------------------------------------------------------------------------
(* Parallel use: two callers, each with its own input schema, share one    *)
(* Spec. A call of ResolveSchema takes one step per read or write of the   *)
(* heap; the frames of its recursion over Items are the caller's stack.    *)

Procs == {1, 2}

RootOf(p) == IF p = 1 THEN sA ELSE sB

Other(p) == 3 - p

Idle == [op |-> "idle", arg |-> Nil, stack |-> <<>>, ret |-> NoErr,
         alone |-> {}, overlap |-> FALSE, done |-> <<>>]

InitConc ==
    \E layout \in {"oas3"},
       userProp \in {Prop("", rCAddress, Nil), Prop("array", EmptyStr, sUserTags)},
       inputProp \in {Prop("", rCUser, Nil), Prop("array", EmptyStr, sAPropItems)},
       a \in {Sch("array", EmptyStr, Nil, sAItems), Sch("object", EmptyStr, mA, sAItems)},
       aItems \in {Sch("", rCUser, Nil, Nil), Sch("", rCMissing, Nil, Nil)},
       b \in OtherSchemas :
        /\ a.Properties = Nil => inputProp = Prop("", rCUser, Nil)
        /\ Document(layout, userProp, inputProp, a, aItems, b)
        /\ hist = <<>>
        /\ procs = [p \in Procs |-> Idle]
        /\ NoConverter

Frame(sid) == [sid |-> sid, pc |-> "entry", props |-> <<>>]

Top(p) == procs[p].stack[Len(procs[p].stack)]

Running(p, pc) ==
    /\ procs[p].op = "resolve"
    /\ procs[p].stack # <<>>
    /\ procs[p].ret = NoErr
    /\ Top(p).pc = pc

\* A step of p while the other caller is inside a call: the calls overlap
Stepped(P, p) ==
    IF P[Other(p)].op # "idle"
    THEN [q \in Procs |-> [P[q] EXCEPT !.overlap = TRUE]]
    ELSE P

SetTop(p, f) ==
    [procs EXCEPT ![p].stack = [@ EXCEPT ![Len(@)] = f]]

\* return res, err: the frame is left and the caller sees the pair
Return(p, res, err) ==
    [procs EXCEPT ![p].stack = SubSeq(@, 1, Len(@) - 1),
                  ![p].ret = [res |-> res, err |-> err]]

\* What the call returns when no other caller runs
AloneResolve(sid) ==
    {[tree |-> SchemaTree(o.S, o.M, o.res, MaxItemsDepth), err |-> o.err] :
        o \in ResolveSchema(hs, hm, sid, MaxItemsDepth)}

\* resolver.ResolveSchema(schema) is called
ConcStartResolve(p) ==
    /\ procs[p].op = "idle"
    /\ Len(procs[p].done) < MaxProcCalls
    /\ procs' = Stepped([procs EXCEPT ![p].op = "resolve",
                                      ![p].arg = RootOf(p),
                                      ![p].stack = <<Frame(RootOf(p))>>,
                                      ![p].ret = NoErr,
                                      ![p].alone = AloneResolve(RootOf(p)),
                                      ![p].overlap = FALSE], p)
    /\ UNCHANGED <<spec, hs, hm, hs0, hm0, hist>>
    /\ UNCHANGED convVars

\* Variant: a Definition that is itself a reference is followed to its
\* target before the schema is built
ConcEnter_FollowAlias(p) ==
    /\ Running(p, "entry")
    /\ LET sid == Top(p).sid
           target == IF HasPrefix(hs[sid].Ref, ComponentsPrefix)
                     THEN spec.Components.Schemas[TrimPrefix(hs[sid].Ref, ComponentsPrefix)]
                     ELSE spec.Definitions[TrimPrefix(hs[sid].Ref, DefinitionsPrefix)]
       IN IF sid = Nil
          THEN /\ procs' = Stepped(Return(p, Nil, NoErr), p)
               /\ hs' = hs
          ELSE IF hs[sid].Ref # EmptyStr
          THEN LET r == resolveRef(hs[sid].Ref)
               IN IF r.err # NoErr
                  THEN /\ procs' = Stepped(Return(p, Nil, r.err), p)
                       /\ hs' = hs
                  ELSE IF target.Ref # EmptyStr
                  THEN /\ hs' = [hs EXCEPT ![sid].Ref = target.Ref]
                       /\ procs' = Stepped(procs, p)
                  ELSE /\ hs' = Append(hs, r.schema)
                       /\ procs' = Stepped(Return(p, Len(hs) + 1, NoErr), p)
          ELSE /\ procs' = Stepped(SetTop(p, [Top(p) EXCEPT !.pc = "loop"]), p)
               /\ hs' = hs
    /\ UNCHANGED <<spec, hm, hs0, hm0, hist>>
    /\ UNCHANGED convVars

\* ResolveSchema, the nil test and the reference case
ConcEnter(p) ==
    /\ Running(p, "entry")
    /\ LET sid == Top(p).sid
       IN IF sid = Nil
          THEN /\ procs' = Stepped(Return(p, Nil, NoErr), p)
               /\ hs' = hs
          ELSE IF hs[sid].Ref # EmptyStr
          THEN LET r == resolveRef(hs[sid].Ref)
               IN IF r.err # NoErr
                  THEN /\ procs' = Stepped(Return(p, Nil, r.err), p)
                       /\ hs' = hs
                  ELSE /\ hs' = Append(hs, r.schema)
                       /\ procs' = Stepped(Return(p, Len(hs) + 1, NoErr), p)
          ELSE /\ procs' = Stepped(SetTop(p, [Top(p) EXCEPT !.pc = "loop"]), p)
               /\ hs' = hs
    /\ UNCHANGED <<spec, hm, hs0, hm0, hist>>
    /\ UNCHANGED convVars

\* ResolveSchema, the loop that reads schema.Properties
ConcLoop(p) ==
    /\ Running(p, "loop")
    /\ LET sid == Top(p).sid
       IN IF HasProperties(hs, hm, sid)
          THEN \E o \in PropertiesLoop(hs, hm, sid) :
                  IF o.err # NoErr
                  THEN /\ procs' = Stepped(Return(p, Nil, o.err), p)
                       /\ hs' = hs
                  ELSE /\ hs' = o.S
                       /\ procs' = Stepped(SetTop(p,
                              [Top(p) EXCEPT !.pc = "assign", !.props = o.props]), p)
          ELSE /\ procs' = Stepped(SetTop(p, [Top(p) EXCEPT !.pc = "items"]), p)
               /\ hs' = hs
    /\ UNCHANGED <<spec, hm, hs0, hm0, hist>>
    /\ UNCHANGED convVars

\* ResolveSchema, schema.Properties = resolvedProperties
ConcAssign(p) ==
    /\ Running(p, "assign")
    /\ LET a == AssignProperties(hs, hm, Top(p).sid, Top(p).props)
       IN /\ hs' = a.S
          /\ hm' = a.M
    /\ procs' = Stepped(SetTop(p, [Top(p) EXCEPT !.pc = "items", !.props = <<>>]), p)
    /\ UNCHANGED <<spec, hs0, hm0, hist>>
    /\ UNCHANGED convVars

\* ResolveSchema, the recursive call on schema.Items, or return schema
ConcItems(p) ==
    /\ Running(p, "items")
    /\ LET sid == Top(p).sid
       IN IF hs[sid].Items # Nil
          THEN procs' = Stepped([SetTop(p, [Top(p) EXCEPT !.pc = "wait"])
                                   EXCEPT ![p].stack = Append(@, Frame(hs[sid].Items))], p)
          ELSE procs' = Stepped(Return(p, sid, NoErr), p)
    /\ UNCHANGED <<spec, hs, hm, hs0, hm0, hist>>
    /\ UNCHANGED convVars

\* ResolveSchema, after the recursive call: schema.Items = resolved
ConcAfterItems(p) ==
    /\ procs[p].op = "resolve"
    /\ procs[p].stack # <<>>
    /\ procs[p].ret # NoErr
    /\ Top(p).pc = "wait"
    /\ LET sid == Top(p).sid
           r == procs[p].ret
       IN IF r.err # NoErr
          THEN /\ procs' = Stepped(Return(p, Nil,
                              Errorf("failed to resolve items", <<>>, r.err)), p)
               /\ hs' = hs
          ELSE /\ hs' = [hs EXCEPT ![sid].Items = r.res]
               /\ procs' = Stepped(Return(p, sid, NoErr), p)
    /\ UNCHANGED <<spec, hm, hs0, hm0, hist>>
    /\ UNCHANGED convVars

\* The caller has the result of ResolveSchema
ConcFinishResolve(p) ==
    /\ procs[p].op = "resolve"
    /\ procs[p].stack = <<>>
    /\ procs[p].ret # NoErr
    /\ procs' = Stepped([procs EXCEPT
          ![p].op = "idle",
          ![p].ret = NoErr,
          ![p].alone = {},
          ![p].done = Append(@,
              [op |-> "ResolveSchema", arg |-> procs[p].arg,
               res |-> procs[p].ret.res,
               out |-> [tree |-> SchemaTree(hs, hm, procs[p].ret.res, MaxItemsDepth),
                        err |-> procs[p].ret.err],
               alone |-> procs[p].alone,
               overlap |-> procs[p].overlap \/ procs[Other(p)].op # "idle"])], p)
    /\ UNCHANGED <<spec, hs, hm, hs0, hm0, hist>>
    /\ UNCHANGED convVars

\* The schemas caller p holds
HeldBy(p) ==
    {RootOf(p)} \cup
    {procs[p].done[i].res : i \in {j \in 1..Len(procs[p].done) : procs[p].done[j].res # Nil}}

\* exampleGen.GenerateExampleJSON(schema) is called
ConcStartExample(p, sid) ==
    /\ procs[p].op = "idle"
    /\ Len(procs[p].done) < MaxProcCalls
    /\ procs' = Stepped([procs EXCEPT ![p].op = "example",
                                      ![p].arg = sid,
                                      ![p].alone = {buildExample(hs, hm, sid, 0)},
                                      ![p].overlap = FALSE], p)
    /\ UNCHANGED <<spec, hs, hm, hs0, hm0, hist>>
    /\ UNCHANGED convVars

\* buildExample reads the schema and returns the value
ConcFinishExample(p) ==
    /\ procs[p].op = "example"
    /\ procs' = Stepped([procs EXCEPT
          ![p].op = "idle",
          ![p].alone = {},
          ![p].done = Append(@,
              [op |-> "buildExample", arg |-> procs[p].arg,
               res |-> Nil,
               out |-> buildExample(hs, hm, procs[p].arg, 0),
               alone |-> procs[p].alone,
               overlap |-> procs[p].overlap \/ procs[Other(p)].op # "idle"])], p)
    /\ UNCHANGED <<spec, hs, hm, hs0, hm0, hist>>
    /\ UNCHANGED convVars

NextConc ==
    \E p \in Procs :
        \/ ConcStartResolve(p)
        \/ ConcEnter(p)
        \/ ConcLoop(p)
        \/ ConcAssign(p)
        \/ ConcItems(p)
        \/ ConcAfterItems(p)
        \/ ConcFinishResolve(p)
        \/ \E sid \in HeldBy(p) : ConcStartExample(p, sid)
        \/ ConcFinishExample(p)

SpecConc == InitConc /\ [][NextConc]_vars

----------------------------------------------------------------------------
(* Example generation alone: GenerateExampleJSON on a schema of any kind   *)
(* that lies behind 0..MaxChain levels of arrays                           *)

MaxChain == 11

fUserEmail == <<"u", "s", "e", "r", "E", "m", "a", "i", "l">>
fFirstName == <<"f", "i", "r", "s", "t", "N", "a", "m", "e">>
fUserID == <<"u", "s", "e", "r", "I", "D">>
fNameId == <<"n", "a", "m", "e", "I", "d">>

GenFieldNames == {fName, fId, fCity, fUserEmail, fFirstName, fUserID, fNameId}

Formats == {"", "date", "date-time", "email", "uuid"}

\* Values of the example keyword, one of each JSON type
Examples == {StringValue(<<"10 Main St">>), IntValue(7), BoolValue(TRUE),
             ListValue(<<IntValue(1), IntValue(2)>>), MapValue(fId :> IntValue(7))}

GenRefs == {rCAddress, rCUser, rCMissing, rDUser, rNested, rBare}

WithFormat(x, f) == [x EXCEPT !.Format = f]

WithExample(p, e) == [p EXCEPT !.Example = e]

\* The property of the object schema that the documents vary; elem is the
\* place of its items schema
GenProps(elem) ==
    {WithFormat(Prop("string", EmptyStr, Nil), f) : f \in Formats} \cup
    {Prop(t, EmptyStr, Nil) :
        t \in {"integer", "number", "boolean", "object", "array", ""}} \cup
    {Prop("array", EmptyStr, elem), Prop("string", rCAddress, Nil)} \cup
    {Prop("", r, Nil) : r \in GenRefs} \cup
    {WithExample(p, e) :
        p \in {Prop("string", EmptyStr, Nil), Prop("integer", EmptyStr, Nil),
               Prop("array", EmptyStr, elem), Prop("", rCAddress, Nil)},
        e \in Examples} \cup
    {AnnotatedRefProp}

\* The schema behind the arrays
GenLeaves ==
    {WithFormat(Sch("string", EmptyStr, Nil, Nil), f) : f \in Formats} \cup
    {Sch(t, EmptyStr, Nil, Nil) :
        t \in {"integer", "number", "boolean", "object", "array", "", "null"}} \cup
    {Sch("", rCUser, Nil, Nil), Sch("", rCMissing, Nil, Nil),
     Sch("object", EmptyStr, mA, Nil)}

\* The items schema of an array property
GenElem == Sch("object", EmptyStr, mB, Nil)

\* n array schemas, each the items of the one before, then the leaf
GenSchemaHeap(n, leaf) ==
    [i \in 1..(n + 2) |->
        IF i <= n THEN Sch("array", EmptyStr, Nil, i + 1)
        ELSE IF i = n + 1 THEN leaf ELSE GenElem]

GenMapHeap(name, p) ==
    << (fStreet :> Prop("string", EmptyStr, Nil)) @@ (fCity :> Prop("string", EmptyStr, Nil)),
       (fName :> Prop("string", EmptyStr, Nil)) @@ (fAddress :> Prop("", rCAddress, Nil)),
       (fId :> Prop("integer", EmptyStr, Nil)) @@ (fName :> Prop("string", EmptyStr, Nil)),
       (name :> p) @@ (fStreet :> Prop("string", EmptyStr, Nil)),
       (fId :> Prop("integer", EmptyStr, Nil)) >>

InitGen ==
    \E layout \in {"oas3", "bare"}, n \in 0..MaxChain, leaf \in GenLeaves,
       name \in GenFieldNames :
      \E p \in GenProps(n + 2) :
        /\ leaf.Properties = Nil =>
              (name = fName /\ p = Prop("string", EmptyStr, Nil))
        /\ spec = SpecOf(layout)
        /\ hs = GenSchemaHeap(n, leaf)
        /\ hm = GenMapHeap(name, p)
        /\ hs0 = hs
        /\ hm0 = hm
        /\ hist = <<>>
        /\ procs = <<>>
        /\ NoConverter

NextGen == CallBuildExample(sA)

SpecGen == InitGen /\ [][NextGen]_vars

----------------------------------------------------------------------------
(* Termination: one caller, step by step, on a document whose definition   *)
(* table is cyclic, and the generator on schemas whose pointers form a     *)
(* loop                                                                    *)

MaxWalk == 12

nNodeA == <<"NodeA">>
nNodeB == <<"NodeB">>
nSelf == <<"Self">>
nAliasA == <<"AliasA">>
nAliasB == <<"AliasB">>

fNext == <<"n", "e", "x", "t">>

RefTo(name) == <<"#", "components", "schemas">> \o name

mNodeA == 1
mNodeB == 2
mSelf == 3
sLoopMid == 3

\* A Definition that is only a reference to another one
Alias(ref) == [Type |-> "", Properties |-> Nil, Required |-> <<>>, Ref |-> ref]

\* NodeA and NodeB refer to each other, Self to itself, the aliases to each
\* other
CyclicSpec ==
    [Components |-> [Schemas |->
        (nNodeA :> Def("object", mNodeA, <<>>)) @@
        (nNodeB :> Def("object", mNodeB, <<>>)) @@
        (nSelf :> Def("object", mSelf, <<>>)) @@
        (nAliasA :> Alias(RefTo(nAliasB))) @@
        (nAliasB :> Alias(RefTo(nAliasA)))],
     Definitions |-> NoTable]

CyclicRefs == {RefTo(nNodeA), RefTo(nSelf), RefTo(nAliasA)}

\* The input schema A of the parsed document: a tree
TermInputs ==
    {Sch("", r, Nil, Nil) : r \in CyclicRefs} \cup
    {Sch("object", EmptyStr, mA, Nil), Sch("array", EmptyStr, Nil, sAItems),
     Sch("object", EmptyStr, mA, sAItems)}

TermProps ==
    {Prop("", r, Nil) : r \in CyclicRefs} \cup {Prop("array", EmptyStr, sAPropItems)}

\* The schema B that a caller builds by hand: its pointers lead back to it
LoopSchemas ==
    {Sch("array", EmptyStr, Nil, sB), Sch("array", EmptyStr, Nil, sLoopMid),
     Sch("object", EmptyStr, mB, Nil)}

TermSchemaHeap(a, aItems, b) ==
    <<a, aItems, Sch("array", EmptyStr, Nil, sB), Sch("", RefTo(nSelf), Nil, Nil), b>>

TermMapHeap(inputProp) ==
    << (fNext :> Prop("", RefTo(nNodeB), Nil)),
       (fNext :> Prop("", RefTo(nNodeA), Nil)),
       (fNext :> Prop("", RefTo(nSelf), Nil)) @@
           (fName :> Prop("array", EmptyStr, sAPropItems)),
       (fName :> Prop("string", EmptyStr, Nil)) @@ (fNext :> inputProp),
       (fNext :> Prop("array", EmptyStr, sB)) @@ (fId :> Prop("integer", EmptyStr, Nil)) >>

InitTerm ==
    \E a \in TermInputs, aItems \in {Sch("", r, Nil, Nil) : r \in CyclicRefs},
       inputProp \in TermProps, b \in LoopSchemas :
        /\ a.Items = Nil => aItems = Sch("", RefTo(nSelf), Nil, Nil)
        /\ a.Properties = Nil => inputProp = Prop("", RefTo(nSelf), Nil)
        /\ spec = CyclicSpec
        /\ hs = TermSchemaHeap(a, aItems, b)
        /\ hm = TermMapHeap(inputProp)
        /\ hs0 = hs
        /\ hm0 = hm
        /\ hist = <<>>
        /\ procs = [p \in Procs |-> Idle]
        /\ NoConverter

\* A call of buildExample that is still to be made
WalkFrame(sid, depth) == [sid |-> sid, depth |-> depth]

\* The calls of buildExample that buildPropertyExample makes for the
\* properties keys of the map mid, at the given depth
RECURSIVE PropertyCalls(_, _, _, _)
PropertyCalls(M, mid, keys, depth) ==
    IF keys = {} THEN <<>>
    ELSE LET k == CHOOSE x \in keys : TRUE
             prop == M[mid][k]
             rest == PropertyCalls(M, mid, keys \ {k}, depth)
         IN IF /\ prop.Example = NilValue
               /\ prop.Ref = EmptyStr
               /\ prop.Type = "array" /\ prop.Items # Nil
            THEN <<WalkFrame(prop.Items, depth + 1)>> \o rest
            ELSE rest

\* Variant: buildExample without the test of the depth
WalkChildren_NoGuard(S, M, sid, depth) ==
    IF sid = Nil THEN <<>>
    ELSE CASE S[sid].Type = "object" ->
                IF S[sid].Properties # Nil
                THEN PropertyCalls(M, S[sid].Properties,
                                   DOMAIN M[S[sid].Properties], depth + 1)
                ELSE <<>>
           [] S[sid].Type = "array" ->
                IF S[sid].Items = Nil THEN <<>>
                ELSE <<WalkFrame(S[sid].Items, depth + 1)>>
           [] OTHER -> <<>>

\* The calls of buildExample that buildExample(sid, depth) makes, directly
\* or through buildObjectExample, buildArrayExample, buildPropertyExample
WalkChildren(S, M, sid, depth) ==
    IF sid = Nil \/ depth > MaxDepth THEN <<>>
    ELSE CASE S[sid].Type = "object" ->
                IF S[sid].Properties # Nil
                THEN PropertyCalls(M, S[sid].Properties,
                                   DOMAIN M[S[sid].Properties], depth + 1)
                ELSE <<>>
           [] S[sid].Type = "array" ->
                IF S[sid].Items = Nil THEN <<>>
                ELSE <<WalkFrame(S[sid].Items, depth + 1)>>
           [] OTHER -> <<>>

\* exampleGen.GenerateExampleJSON(schema) is called
WalkStart(p, sid) ==
    /\ procs[p].op = "idle"
    /\ Len(procs[p].done) < MaxProcCalls
    /\ procs' = [procs EXCEPT ![p].op = "walk",
                              ![p].arg = sid,
                              ![p].stack = <<WalkFrame(sid, 0)>>]
    /\ UNCHANGED <<spec, hs, hm, hs0, hm0, hist>>
    /\ UNCHANGED convVars

\* One call of buildExample runs up to the calls it makes itself
WalkStep(p) ==
    /\ procs[p].op = "walk"
    /\ procs[p].stack # <<>>
    /\ Top(p).depth <= MaxWalk
    /\ procs' = [procs EXCEPT ![p].stack =
                    SubSeq(@, 1, Len(@) - 1) \o
                    WalkChildren(hs, hm, Top(p).sid, Top(p).depth)]
    /\ UNCHANGED <<spec, hs, hm, hs0, hm0, hist>>
    /\ UNCHANGED convVars

\* Every call has returned: GenerateExampleJSON has its value
WalkFinish(p) ==
    /\ procs[p].op = "walk"
    /\ procs[p].stack = <<>>
    /\ procs' = [procs EXCEPT
          ![p].op = "idle",
          ![p].done = Append(@,
              [op |-> "buildExample", arg |-> procs[p].arg,
               res |-> Nil,
               out |-> buildExample(hs, hm, procs[p].arg, 0)])]
    /\ UNCHANGED <<spec, hs, hm, hs0, hm0, hist>>
    /\ UNCHANGED convVars

NextTerm ==
    \/ ConcStartResolve(1)
    \/ ConcEnter(1)
    \/ ConcLoop(1)
    \/ ConcAssign(1)
    \/ ConcItems(1)
    \/ ConcAfterItems(1)
    \/ ConcFinishResolve(1)
    \/ \E sid \in HeldBy(1) \cup {Nil, sB} : WalkStart(1, sid)
    \/ WalkStep(1)
    \/ WalkFinish(1)

\* The caller runs on: a call that can take a step takes it
SpecTerm == InitTerm /\ [][NextTerm]_vars /\ WF_vars(NextTerm)

----------------------------------------------------------------------------
(* Endpoints and page titles (internal/swagger Parser). A path, a method   *)
(* key, a summary, an operation ID and a title are sequences of            *)
(* characters; the Go string "" is <<>>.                                   *)

IsUpper(c) == \E j \in 1..26 : UpperChars[j] = c
IsLower(c) == \E j \in 1..26 : LowerChars[j] = c
IsLetter(c) == IsUpper(c) \/ IsLower(c)

\* strings.ToUpper
ToUpper(s) ==
    [i \in 1..Len(s) |->
        IF IsLower(s[i])
        THEN UpperChars[CHOOSE j \in 1..26 : LowerChars[j] = s[i]]
        ELSE s[i]]

\* strings.ReplaceAll(s, old, new) for a one-character old and a new of
\* zero or one characters (new is a sequence)
RECURSIVE ReplaceAll(_, _, _)
ReplaceAll(s, old, new) ==
    IF s = <<>> THEN <<>>
    ELSE (IF Head(s) = old THEN new ELSE <<Head(s)>>)
         \o ReplaceAll(Tail(s), old, new)

\* cases.Title(language.Und).String(s): the first letter of every word in
\* upper case, its other letters in lower case
TitleCase(s) ==
    [i \in 1..Len(s) |->
        IF i = 1 \/ ~IsLetter(s[i - 1])
        THEN ToUpper(<<s[i]>>)[1]
        ELSE ToLower(<<s[i]>>)[1]]

\* the loop of cleanOperationID: a space before every capital but the first
\* character
RECURSIVE SpaceCapitals(_, _)
SpaceCapitals(s, i) ==
    IF i > Len(s) THEN <<>>
    ELSE (IF i > 1 /\ IsUpper(s[i]) THEN <<" ", s[i]>> ELSE <<s[i]>>)
         \o SpaceCapitals(s, i + 1)

cleanOperationID(operationID) ==
    TitleCase(ToLower(SpaceCapitals(ReplaceAll(operationID, "_", <<" ">>), 1)))

\* strings.Split(s, "/") on characters: the sequence of the parts
RECURSIVE SplitSlash(_, _)
SplitSlash(s, part) ==
    IF s = <<>> THEN <<part>>
    ELSE IF Head(s) = "/" THEN <<part>> \o SplitSlash(Tail(s), <<>>)
    ELSE SplitSlash(Tail(s), Append(part, Head(s)))

\* the loop of generateTitleFromPath: the non-empty parts in title case
RECURSIVE TitleParts(_)
TitleParts(parts) ==
    IF parts = <<>> THEN <<>>
    ELSE (IF Head(parts) # <<>> THEN <<TitleCase(Head(parts))>> ELSE <<>>)
         \o TitleParts(Tail(parts))

\* strings.Join(parts, " ")
RECURSIVE JoinSpace(_)
JoinSpace(parts) ==
    IF parts = <<>> THEN <<>>
    ELSE IF Len(parts) = 1 THEN parts[1]
    ELSE parts[1] \o <<" ">> \o JoinSpace(Tail(parts))

sRoot == <<" ", "R", "o", "o", "t">>

generateTitleFromPath_NoRoot(path, method) ==
    LET trimmed == IF path # <<>> /\ path[1] = "/" THEN Tail(path) ELSE path
        cleanPath == ReplaceAll(ReplaceAll(trimmed, "{", <<>>), "}", <<>>)
        titleParts == TitleParts(SplitSlash(cleanPath, <<>>))
    IN  ToUpper(method) \o <<" ">> \o JoinSpace(titleParts)

generateTitleFromPath(path, method) ==
    LET trimmed == IF path # <<>> /\ path[1] = "/" THEN Tail(path) ELSE path
        cleanPath == ReplaceAll(ReplaceAll(trimmed, "{", <<>>), "}", <<>>)
        titleParts == TitleParts(SplitSlash(cleanPath, <<>>))
    IN  IF titleParts = <<>>
        THEN ToUpper(method) \o sRoot
        ELSE ToUpper(method) \o <<" ">> \o JoinSpace(titleParts)

generatePageTitle_IDFirst(path, method, operation) ==
    IF operation.OperationID # <<>> THEN cleanOperationID(operation.OperationID)
    ELSE IF operation.Summary # <<>> THEN operation.Summary
    ELSE generateTitleFromPath(path, method)

generatePageTitle(path, method, operation) ==
    IF operation.Summary # <<>> THEN operation.Summary
    ELSE IF operation.OperationID # <<>> THEN cleanOperationID(operation.OperationID)
    ELSE generateTitleFromPath(path, method)

kGet == <<"g", "e", "t">>
kPost == <<"p", "o", "s", "t">>
kPut == <<"p", "u", "t">>
kDelete == <<"d", "e", "l", "e", "t", "e">>
kPatch == <<"p", "a", "t", "c", "h">>
kOptions == <<"o", "p", "t", "i", "o", "n", "s">>
kHead == <<"h", "e", "a", "d">>

validMethods == {kGet, kPost, kPut, kDelete, kPatch, kOptions, kHead}

isHTTPMethod(method) == ToLower(method) \in validMethods

\* all orders in which a range loop can visit the keys of a Go map
Orders(keys) ==
    {o \in [1..Cardinality(keys) -> keys] :
        \A i, j \in 1..Cardinality(keys) : i # j => o[i] # o[j]}

\* the endpoints of one path item, its method keys visited in the order ms
RECURSIVE EndpointsOfPath(_, _, _)
EndpointsOfPath(path, pathItem, ms) ==
    IF ms = <<>> THEN <<>>
    ELSE (IF isHTTPMethod(Head(ms))
          THEN <<[Path |-> path, Method |-> Head(ms),
                  Operation |-> pathItem[Head(ms)],
                  Title |-> generatePageTitle(path, Head(ms), pathItem[Head(ms)])]>>
          ELSE <<>>)
         \o EndpointsOfPath(path, pathItem, Tail(ms))

\* the slices ExtractEndpoints can build for the paths visited in the
\* order ps: Go leaves the order of a range over a map open
RECURSIVE EndpointsOfPaths(_, _)
EndpointsOfPaths(Paths, ps) ==
    IF ps = <<>> THEN {<<>>}
    ELSE {first \o rest :
            first \in {EndpointsOfPath(ps[1], Paths[ps[1]], ms) :
                          ms \in Orders(DOMAIN Paths[ps[1]])},
            rest \in EndpointsOfPaths(Paths, Tail(ps))}

ExtractEndpoints(s) ==
    UNION {EndpointsOfPaths(s.Paths, ps) : ps \in Orders(DOMAIN s.Paths)}

----------------------------------------------------------------------------
(* Configuration (internal/config) *)

\* what an environment variable can hold: nothing, or a value
EnvValues == {"", "x"}

LoadFromEnv_NoToken(baseURL, username, apiToken, spaceKey) ==
    [BaseURL |-> baseURL, Username |-> username, APIToken |-> apiToken,
     SpaceKey |-> spaceKey,
     Enabled |-> baseURL # "" /\ username # "" /\ spaceKey # ""]

LoadFromEnv(baseURL, username, apiToken, spaceKey) ==
    [BaseURL |-> baseURL, Username |-> username, APIToken |-> apiToken,
     SpaceKey |-> spaceKey,
     Enabled |-> baseURL # "" /\ username # "" /\ apiToken # "" /\ spaceKey # ""]

----------------------------------------------------------------------------
(* Documents with paths. An Operation holds its summary, its operation ID, *)
(* the schema of the one media type of its requestBody (Nil: no            *)
(* requestBody) and the schema of its first parameter in the body (Nil: no *)
(* such parameter).                                                        *)

tGetUsers == <<"G", "e", "t", " ", "U", "s", "e", "r", "s">>
tCreateUser == <<"C", "r", "e", "a", "t", "e", " ", "U", "s", "e", "r">>
tList == <<"L", "i", "s", "t">>
oGetUser == <<"g", "e", "t", "U", "s", "e", "r">>
oList == <<"l", "i", "s", "t">>
oCreate_user == <<"c", "r", "e", "a", "t", "e", "_", "u", "s", "e", "r">>
pUsers == <<"/", "u", "s", "e", "r", "s">>
pUsersId == <<"/", "u", "s", "e", "r", "s", "/", "{", "i", "d", "}">>
pAccounts == <<"/", "a", "c", "c", "o", "u", "n", "t", "s">>
pRoot == <<"/">>
kGET == <<"G", "E", "T">>
kParameters == <<"p", "a", "r", "a", "m", "e", "t", "e", "r", "s">>
tTestAPI == <<"T", "e", "s", "t", " ", "A", "P", "I">>
sAPIDocumentation == <<" ", "-", " ", "A", "P", "I", " ", "D", "o", "c", "u", "m", "e", "n", "t", "a", "t", "i", "o", "n">>

Op(summary, operationID, requestBody, bodyParam) ==
    [Summary |-> summary, OperationID |-> operationID,
     RequestBody |-> requestBody, BodyParam |-> bodyParam]

\* the paths of the fixture of TestParser_ExtractEndpoints, the second
\* operation with a body
PathsTest ==
    (pUsers :> ((kGet :> Op(tGetUsers, oList, Nil, Nil)) @@
                (kPost :> Op(tCreateUser, <<>>, sA, Nil)))) @@
    (pUsersId :> (kGet :> Op(<<>>, oGetUser, Nil, Nil)))

\* operations without summary, a key that is no method, a method key in
\* upper case, the path without segments, an operation ID with an underscore
PathsPlain ==
    (pUsers :> ((kPost :> Op(<<>>, <<>>, Nil, sA)) @@
                (kParameters :> Op(<<>>, <<>>, Nil, Nil)))) @@
    (pRoot :> (kGET :> Op(<<>>, <<>>, sB, Nil))) @@
    (pUsersId :> (kGet :> Op(<<>>, oCreate_user, Nil, Nil)))

\* two operations whose titles are the same string
PathsSame ==
    (pUsers :> (kGet :> Op(tList, <<>>, Nil, Nil))) @@
    (pAccounts :> (kPost :> Op(<<>>, oList, sA, Nil)))

PathSets == {PathsTest, PathsPlain, PathsSame}

\* The bodies that the documents vary
BodySchemas == {Sch("", rCUser, Nil, Nil), Sch("", rCMissing, Nil, Nil)}

ConvSpec(paths) ==
    [Components |-> [Schemas |-> (nUser :> DefUser) @@ (nAddress :> DefAddress)],
     Definitions |-> NoTable,
     Info |-> [Title |-> tTestAPI],
     Paths |-> paths]

----------------------------------------------------------------------------
(* Formatter (internal/confluence Formatter): what the request body        *)
(* section of a page shows                                                 *)

NoExample == [kind |-> "none"]
NoSection == [heading |-> FALSE, tables |-> <<>>, example |-> NoExample]

\* the part of formatRequestBodySection for the requestBody: the loop
\* variable mediaType is a copy, so ResolveSchema works on a new Schema
RequestBodyPart(S, M, op) ==
    IF op.RequestBody = Nil
    THEN {[S |-> S, M |-> M, use |-> Nil, tables |-> <<>>]}
    ELSE LET S1 == Append(S, S[op.RequestBody])
             use == Len(S) + 1
         IN  {[S |-> o.S, M |-> o.M, use |-> use,
               tables |-> IF o.res # Nil
                          THEN <<SchemaTree(o.S, o.M, o.res, MaxItemsDepth)>>
                          ELSE <<>>] :
                 o \in ResolveSchema(S1, M, use, MaxItemsDepth)}

\* the part for the body parameter
BodyParamPart(r, op) ==
    IF op.BodyParam = Nil THEN {r}
    ELSE {[S |-> o.S, M |-> o.M, use |-> op.BodyParam,
           tables |-> IF o.res # Nil
                      THEN Append(r.tables, SchemaTree(o.S, o.M, o.res, MaxItemsDepth))
                      ELSE r.tables] :
             o \in ResolveSchema(r.S, r.M, op.BodyParam, MaxItemsDepth)}

ExamplePart_Unresolved(r) ==
    IF r.use = Nil
    THEN {[S |-> r.S, M |-> r.M,
           section |-> [heading |-> TRUE, tables |-> r.tables, example |-> NoExample]]}
    ELSE {[S |-> o.S, M |-> o.M,
           section |-> [heading |-> TRUE, tables |-> r.tables,
                        example |-> IF o.res # Nil
                                    THEN buildExample(o.S, o.M, o.res, 0)
                                    ELSE buildExample(o.S, o.M, r.use, 0)]] :
             o \in ResolveSchema(r.S, r.M, r.use, MaxItemsDepth)}

\* the example section
ExamplePart(r) ==
    IF r.use = Nil
    THEN {[S |-> r.S, M |-> r.M,
           section |-> [heading |-> TRUE, tables |-> r.tables, example |-> NoExample]]}
    ELSE {[S |-> o.S, M |-> o.M,
           section |-> [heading |-> TRUE, tables |-> r.tables,
                        example |-> IF o.res # Nil
                                    THEN buildExample(o.S, o.M, o.res, 0)
                                    ELSE NoExample]] :
             o \in ResolveSchema(r.S, r.M, r.use, MaxItemsDepth)}

formatRequestBodySection(S, M, op) ==
    IF op.RequestBody = Nil /\ op.BodyParam = Nil
    THEN {[S |-> S, M |-> M, section |-> NoSection]}
    ELSE UNION {UNION {ExamplePart(r2) : r2 \in BodyParamPart(r1, op)} :
                   r1 \in RequestBodyPart(S, M, op)}

\* FormatEndpointPage: the page of an endpoint
FormatEndpointPage(S, M, path, method, op) ==
    {[S |-> f.S, M |-> f.M,
      content |-> [path |-> path, method |-> method,
                   operationID |-> op.OperationID, body |-> f.section]] :
        f \in formatRequestBodySection(S, M, op)}

\* the page that CreateParentPage writes
ParentTitle(apiTitle) == apiTitle \o sAPIDocumentation
ParentContent(apiTitle) == [parent |-> apiTitle]

----------------------------------------------------------------------------
(* Confluence client (internal/confluence ConfluenceClient) and the        *)
(* content API behind it. A page ID is a positive number, the Go string "" *)
(* for no ID is NoID. A call of CreateOrUpdatePage takes one step per      *)
(* request; hist records the requests, the printed pages and the returns.  *)

NoID == 0

IdleClient ==
    [pc |-> "idle", calls |-> 0, title |-> <<>>, content |-> NoExample,
     parentPageID |-> NoID, existingPageID |-> NoID, version |-> 0,
     ret |-> [id |-> NoID, err |-> NoErr]]

Event(o, c, cl) == [op |-> o, by |-> c, call |-> cl.calls, title |-> cl.title]

Returned(c, cl) ==
    Event("return", c, cl) @@ [id |-> cl.ret.id, err |-> cl.ret.err]

\* the first statement of CreateOrUpdatePage: the client after it and what
\* hist gains
CreateOrUpdatePage(c, title, content, parentPageID) ==
    LET cl == [client[c] EXCEPT !.calls = @ + 1, !.title = title,
                                !.content = content,
                                !.parentPageID = parentPageID,
                                !.existingPageID = NoID, !.version = 0,
                                !.ret = [id |-> NoID, err |-> NoErr]]
    IN  IF ~cfg.Enabled
        THEN [client |-> [cl EXCEPT !.pc = "ret"],
              events |-> <<Event("print", c, cl) @@ [content |-> content],
                           Returned(c, cl)>>]
        ELSE [client |-> [cl EXCEPT !.pc = "find"], events |-> <<>>]

\* the search of the content API: the pages of the space with the title
Results(title) ==
    SelectSeq(backend.pages, LAMBDA p : p.Title = title)

\* findPageByTitle and the check of its error
findPageByTitle(c) ==
    /\ client[c].pc = "find"
    /\ \E ok \in BOOLEAN :
          /\ ctx = "cancelled" => ~ok
          /\ LET results == Results(client[c].title)
                 id == IF results = <<>> THEN NoID ELSE results[1].ID
                 version == IF results = <<>> THEN 0 ELSE results[1].Version
                 cl == IF ok
                       THEN [client[c] EXCEPT !.pc = "write",
                                              !.existingPageID = id,
                                              !.version = version]
                       ELSE [client[c] EXCEPT !.pc = "ret",
                               !.ret = [id |-> NoID,
                                        err |-> Errorf("failed to check existing page",
                                                       <<>>, NoErr)]]
             IN  /\ client' = [client EXCEPT ![c] = cl]
                 /\ hist' = hist \o
                      <<Event("GET", c, cl) @@
                          [ok |-> ok, id |-> IF ok THEN id ELSE NoID,
                           version |-> IF ok THEN version ELSE 0]>> \o
                      (IF ok THEN <<>> ELSE <<Returned(c, cl)>>)
    /\ UNCHANGED <<spec, hs, hm, hs0, hm0, procs, cfg, ctx, backend, conv>>

\* the Page that CreateOrUpdatePage builds
PageOf_KeepVersion(cl) ==
    [ID |-> cl.existingPageID, Title |-> cl.title, Content |-> cl.content,
     Ancestors |-> IF cl.parentPageID # NoID THEN <<cl.parentPageID>> ELSE <<>>,
     Version |-> cl.version]

PageOf(cl) ==
    [ID |-> cl.existingPageID, Title |-> cl.title, Content |-> cl.content,
     Ancestors |-> IF cl.parentPageID # NoID THEN <<cl.parentPageID>> ELSE <<>>,
     Version |-> IF cl.existingPageID # NoID THEN cl.version + 1 ELSE 0]

\* the content API accepts an update of a page that exists when the version
\* sent is the one it holds plus one, and a new page when the space has
\* none of its title
Accepts(method, page) ==
    IF method = "PUT"
    THEN \E i \in 1..Len(backend.pages) :
            /\ backend.pages[i].ID = page.ID
            /\ page.Version = backend.pages[i].Version + 1
    ELSE Results(page.Title) = <<>>

\* the pages after an accepted request
Stored(method, page) ==
    IF method = "PUT"
    THEN [i \in 1..Len(backend.pages) |->
            IF backend.pages[i].ID = page.ID
            THEN [page EXCEPT !.Ancestors =
                     IF page.Ancestors = <<>> THEN backend.pages[i].Ancestors
                     ELSE page.Ancestors]
            ELSE backend.pages[i]]
    ELSE Append(backend.pages,
                [page EXCEPT !.ID = Len(backend.pages) + 1, !.Version = 1])

\* updatePage or createPage
writePage(c) ==
    /\ client[c].pc = "write"
    /\ LET page == PageOf(client[c])
           method == IF client[c].existingPageID # NoID THEN "PUT" ELSE "POST"
       IN  \E ok \in BOOLEAN :
             /\ ok => ctx = "live" /\ Accepts(method, page)
             /\ backend' = IF ok THEN [backend EXCEPT !.pages = Stored(method, page)]
                           ELSE backend
             /\ LET id == IF ~ok THEN NoID
                          ELSE IF method = "PUT" THEN page.ID
                          ELSE Len(backend.pages) + 1
                    cl == [client[c] EXCEPT !.pc = "ret",
                             !.ret = [id |-> id,
                                      err |-> IF ok THEN NoErr
                                              ELSE Errorf("failed to write page",
                                                          <<>>, NoErr)]]
                IN  /\ client' = [client EXCEPT ![c] = cl]
                    /\ hist' = hist \o
                         <<Event(method, c, cl) @@ [ok |-> ok, page |-> page],
                           Returned(c, cl)>>
    /\ UNCHANGED <<spec, hs, hm, hs0, hm0, procs, cfg, ctx, conv>>

----------------------------------------------------------------------------
(* Converter (internal/converter): one run of Convert as main starts it,   *)
(* the client being caller 1, and the signal that cancels its context      *)

Finished(err) == [conv EXCEPT !.pc = "done", !.err = err]

\* parser.Parse and parser.ExtractEndpoints
ConvertParse ==
    /\ conv.pc = "Parse"
    /\ \E ok \in BOOLEAN :
          /\ ctx = "cancelled" => ~ok
          /\ IF ok
             THEN \E endpoints \in ExtractEndpoints(spec) :
                    conv' = [conv EXCEPT !.pc = "CreateParentPage",
                                         !.endpoints = endpoints]
             ELSE conv' = Finished(Errorf("failed to parse swagger", <<>>, NoErr))
    /\ UNCHANGED <<spec, hs, hm, hs0, hm0, hist, procs, cfg, ctx, backend, client>>

\* c.client.CreateParentPage(ctx, spec.Info.Title): the client is never nil
ConvertCreateParentPage ==
    /\ conv.pc = "CreateParentPage"
    /\ LET call == CreateOrUpdatePage(1, ParentTitle(spec.Info.Title),
                                      ParentContent(spec.Info.Title), NoID)
       IN  /\ client' = [client EXCEPT ![1] = call.client]
           /\ hist' = hist \o call.events
    /\ conv' = [conv EXCEPT !.pc = "ParentReturned"]
    /\ UNCHANGED <<spec, hs, hm, hs0, hm0, procs, cfg, ctx, backend>>

ConvertParentReturned_Ignore ==
    /\ conv.pc = "ParentReturned"
    /\ client[1].pc = "ret"
    /\ conv' = [conv EXCEPT !.pc = "loop", !.i = 1,
                            !.parentPageID = client[1].ret.id]
    /\ client' = [client EXCEPT ![1].pc = "idle"]
    /\ UNCHANGED <<spec, hs, hm, hs0, hm0, hist, procs, cfg, ctx, backend>>

\* the return of CreateParentPage
ConvertParentReturned ==
    /\ conv.pc = "ParentReturned"
    /\ client[1].pc = "ret"
    /\ IF client[1].ret.err # NoErr
       THEN conv' = Finished(Errorf("failed to create parent page", <<>>,
                                    client[1].ret.err))
       ELSE conv' = [conv EXCEPT !.pc = "loop", !.i = 1,
                                 !.parentPageID = client[1].ret.id]
    /\ client' = [client EXCEPT ![1].pc = "idle"]
    /\ UNCHANGED <<spec, hs, hm, hs0, hm0, hist, procs, cfg, ctx, backend>>

\* the head of the loop over the endpoints and processEndpoint up to its
\* call of CreateOrUpdatePage
ConvertProcessEndpoint ==
    /\ conv.pc = "loop"
    /\ conv.i <= Len(conv.endpoints)
    /\ LET endpoint == conv.endpoints[conv.i]
       IN  \E f \in FormatEndpointPage(hs, hm, endpoint.Path, endpoint.Method,
                                       endpoint.Operation) :
             LET call == CreateOrUpdatePage(1, endpoint.Title, f.content,
                                            conv.parentPageID)
             IN  /\ hs' = f.S
                 /\ hm' = f.M
                 /\ client' = [client EXCEPT ![1] = call.client]
                 /\ hist' = hist \o
                      <<[op |-> "processEndpoint", i |-> conv.i, ctx |-> ctx,
                         title |-> endpoint.Title, content |-> f.content]>> \o
                      call.events
    /\ conv' = [conv EXCEPT !.pc = "EndpointReturned"]
    /\ UNCHANGED <<spec, hs0, hm0, procs, cfg, ctx, backend>>

\* the return of processEndpoint
ConvertEndpointReturned ==
    /\ conv.pc = "EndpointReturned"
    /\ client[1].pc = "ret"
    /\ IF client[1].ret.err # NoErr
       THEN conv' = Finished(Errorf("failed to process", <<>>,
                        Errorf("failed to create/update page", <<>>,
                               client[1].ret.err)))
       ELSE conv' = [conv EXCEPT !.pc = "loop", !.i = @ + 1,
                                 !.successCount = @ + 1]
    /\ client' = [client EXCEPT ![1].pc = "idle"]
    /\ UNCHANGED <<spec, hs, hm, hs0, hm0, hist, procs, cfg, ctx, backend>>

\* the end of the loop: the summary and return nil
ConvertReturn ==
    /\ conv.pc = "loop"
    /\ conv.i > Len(conv.endpoints)
    /\ conv' = Finished(NoErr)
    /\ UNCHANGED <<spec, hs, hm, hs0, hm0, hist, procs, cfg, ctx, backend, client>>

\* SIGINT or SIGTERM while Convert runs: signal.NotifyContext cancels ctx
Cancel ==
    /\ ctx = "live"
    /\ conv.pc # "done"
    /\ ctx' = "cancelled"
    /\ UNCHANGED <<spec, hs, hm, hs0, hm0, hist, procs, cfg, backend, conv, client>>

\* the pages that an earlier run has left in the space
EarlierPages ==
    <<[ID |-> 1, Title |-> ParentTitle(tTestAPI), Content |-> ParentContent(tTestAPI),
       Ancestors |-> <<>>, Version |-> 2],
      [ID |-> 2, Title |-> tCreateUser, Content |-> NoExample,
       Ancestors |-> <<1>>, Version |-> 1]>>

InitConv ==
    \E paths \in PathSets, a \in BodySchemas,
       baseURL \in EnvValues, username \in EnvValues,
       apiToken \in EnvValues, spaceKey \in EnvValues,
       pages \in {<<>>, EarlierPages} :
        /\ spec = ConvSpec(paths)
        /\ hs = SchemaHeap(a, Sch("string", EmptyStr, Nil, Nil),
                           Sch("object", EmptyStr, mA, Nil))
        /\ hm = MapHeap(Prop("string", EmptyStr, Nil), Prop("integer", EmptyStr, Nil))
        /\ hs0 = hs
        /\ hm0 = hm
        /\ hist = <<>>
        /\ procs = <<>>
        /\ cfg = LoadFromEnv(baseURL, username, apiToken, spaceKey)
        /\ ctx = "live"
        /\ backend = [pages |-> pages]
        /\ conv = [pc |-> "Parse", endpoints |-> <<>>, i |-> 0,
                   parentPageID |-> NoID, successCount |-> 0, err |-> NoErr]
        /\ client = <<IdleClient>>

NextConv ==
    \/ ConvertParse
    \/ ConvertCreateParentPage
    \/ ConvertParentReturned
    \/ ConvertProcessEndpoint
    \/ ConvertEndpointReturned
    \/ ConvertReturn
    \/ findPageByTitle(1)
    \/ writePage(1)
    \/ Cancel

SpecConv == InitConv /\ [][NextConv]_vars

----------------------------------------------------------------------------
(* Two publishers of one space: each calls CreateOrUpdatePage on its own   *)
(* client, one call after the other                                        *)

MaxPubCalls == 2

Publishers == {1, 2}

PubCall(c) ==
    /\ client[c].pc \in {"idle", "ret"}
    /\ client[c].calls < MaxPubCalls
    /\ LET call == CreateOrUpdatePage(c, tList, [by |-> c, n |-> client[c].calls], NoID)
       IN  /\ client' = [client EXCEPT ![c] = call.client]
           /\ hist' = hist \o call.events
    /\ UNCHANGED <<spec, hs, hm, hs0, hm0, procs, cfg, ctx, backend, conv>>

ListPage(version) ==
    [ID |-> 1, Title |-> tList, Content |-> NoExample, Ancestors |-> <<>>,
     Version |-> version]

InitPub ==
    \E pages \in {<<>>, <<ListPage(1)>>, <<ListPage(2)>>} :
        /\ spec = ConvSpec(PathsSame)
        /\ hs = SchemaHeap(Sch("", rCUser, Nil, Nil), Sch("string", EmptyStr, Nil, Nil),
                           Sch("object", EmptyStr, mA, Nil))
        /\ hm = MapHeap(Prop("string", EmptyStr, Nil), Prop("integer", EmptyStr, Nil))
        /\ hs0 = hs
        /\ hm0 = hm
        /\ hist = <<>>
        /\ procs = <<>>
        /\ cfg = LoadFromEnv("x", "x", "x", "x")
        /\ ctx = "live"
        /\ backend = [pages |-> pages]
        /\ conv = [pc |-> "off"]
        /\ client = [c \in Publishers |-> IdleClient]

NextPub ==
    \E c \in Publishers :
        \/ PubCall(c)
        \/ findPageByTitle(c)
        \/ writePage(c)

SpecPub == InitPub /\ [][NextPub]_vars

----------------------------------------------------------------------------
(* Vocabulary of the properties *)

Calls == {i \in 1..Len(hist) : hist[i].op = "ResolveSchema"}

Succeeded(h) == h.err = NoErr /\ h.res # Nil

Failed(h) == h.err # NoErr /\ h.res = Nil

\* The two supported forms of a reference string, by its segments
IsComponentsRef(r) ==
    Len(r) >= 4 /\ r[1] = "#" /\ r[2] = "components" /\ r[3] = "schemas"

IsDefinitionsRef(r) ==
    Len(r) >= 3 /\ r[1] = "#" /\ r[2] = "definitions"

\* The text after the prefix
NameOfComponentsRef(r) == [i \in 1..(Len(r) - 3) |-> r[i + 3]]

NameOfDefinitionsRef(r) == [i \in 1..(Len(r) - 2) |-> r[i + 2]]

ComponentsTable ==
    IF spec.Components = NoComponents THEN NoTable ELSE spec.Components.Schemas

\* A property node of a tree carries a reference
RECURSIVE TreeHasRef(_)
PropertyHasRef(p) ==
    \/ p.Ref # EmptyStr
    \/ TreeHasRef(p.Items)

TreeHasRef(t) ==
    IF t = NilTree \/ t = CutTree THEN FALSE
    ELSE \/ t.Ref # EmptyStr
         \/ /\ t.Properties # NilTree
            /\ \E k \in DOMAIN t.Properties : PropertyHasRef(t.Properties[k])
         \/ TreeHasRef(t.Items)

\* The structure of a Definition as the document states it
DefinitionTree(def) ==
    [Type |-> def.Type,
     Properties |-> PropertiesTree(hs0, hm0, def.Properties, MaxItemsDepth),
     Required |-> def.Required]

DefinitionHasRef(def) ==
    \/ def.Ref # EmptyStr
    \/ /\ def.Properties # Nil
       /\ \E k \in DOMAIN hm0[def.Properties] :
             PropertyHasRef(PropertyTree(hs0, hm0, hm0[def.Properties][k], MaxItemsDepth))

\* A resolved tree has the structure of the Definition
SameShape(t, def) ==
    /\ t.Type = def.Type
    /\ t.Properties = DefinitionTree(def).Properties
    /\ t.Required = def.Required

----------------------------------------------------------------------------
(* C1: a tree that ResolveSchema returns holds no node with a non-empty    *)
(* $ref. The resolver violates it: resolveRef hands out the properties of  *)
(* the Definition as they are, and resolveProperty keeps prop.Ref.         *)
C1_OutputHasNoReference ==
    \A i \in Calls : Succeeded(hist[i]) => ~TreeHasRef(hist[i].tree)

(* C2: with Address = {street, city} and User = {name, address: $ref       *)
(* Address} in components.schemas, ResolveSchema($ref User) has exactly 2  *)
(* fields and the address field is expanded to the 2 fields of Address.    *)
NestedScenario ==
    /\ spec = SpecOf("oas3")
    /\ hm0[mUser][fAddress] = Prop("", rCAddress, Nil)

IsExpandedAddress(p) ==
    /\ p.Ref = EmptyStr
    /\ p.Type = "object"
    /\ "Properties" \in DOMAIN p
    /\ DOMAIN p.Properties = {fStreet, fCity}

C2_NestedReferenceExpanded ==
    \A i \in Calls :
        (NestedScenario /\ hist[i].before.Ref = rCUser) =>
            /\ Succeeded(hist[i])
            /\ Cardinality(DOMAIN hist[i].tree.Properties) = 2
            /\ IsExpandedAddress(hist[i].tree.Properties[fAddress])

(* C3: shape preservation. A reference to a Definition D without           *)
(* references, in the table of its dialect, resolves to a tree with the    *)
(* type, the properties and the required list of D.                        *)
C3_ShapePreserved ==
    \A i \in Calls :
        LET r == hist[i].before.Ref
        IN /\ (/\ IsComponentsRef(r)
               /\ NameOfComponentsRef(r) \in DOMAIN ComponentsTable
               /\ ~DefinitionHasRef(ComponentsTable[NameOfComponentsRef(r)]))
              => /\ Succeeded(hist[i])
                 /\ SameShape(hist[i].tree, ComponentsTable[NameOfComponentsRef(r)])
           /\ (/\ IsDefinitionsRef(r)
               /\ NameOfDefinitionsRef(r) \in DOMAIN spec.Definitions
               /\ ~DefinitionHasRef(spec.Definitions[NameOfDefinitionsRef(r)]))
              => /\ Succeeded(hist[i])
                 /\ SameShape(hist[i].tree, spec.Definitions[NameOfDefinitionsRef(r)])

C3_Witness ==
    \E i, j \in Calls :
        /\ hist[i].before.Ref = rCUser /\ Succeeded(hist[i])
        /\ ~DefinitionHasRef(ComponentsTable[nUser])
        /\ DOMAIN hist[i].tree.Properties = {fName, fAddress}
        /\ hist[j].before.Ref = rDUser /\ Succeeded(hist[j])
        /\ ~DefinitionHasRef(spec.Definitions[nUser])
        /\ DOMAIN hist[j].tree.Properties = {fId, fName}

(* C4: a non-empty reference string that starts with neither               *)
(* #/definitions/ nor #/components/schemas/ fails with the                 *)
(* unsupported-reference-format error and no schema.                       *)
C4_UnsupportedFormat ==
    \A i \in Calls :
        LET r == hist[i].before.Ref
        IN (r # EmptyStr /\ ~IsComponentsRef(r) /\ ~IsDefinitionsRef(r)) =>
              /\ Failed(hist[i])
              /\ hist[i].err = Errorf("unsupported $ref format", r, NoErr)

C4_Witness ==
    \E i \in Calls :
        /\ hist[i].before.Ref = rNoSlash
        /\ hist[i].err.msg = "unsupported $ref format"
        /\ nUser \in DOMAIN spec.Definitions

(* C5: a reference of a supported form whose name is not in the table of   *)
(* its form (also when the Spec has no components at all) fails with a     *)
(* not-found error and no schema.                                          *)
C5_DefinitionNotFound ==
    \A i \in Calls :
        LET r == hist[i].before.Ref
        IN /\ (IsComponentsRef(r) /\ NameOfComponentsRef(r) \notin DOMAIN ComponentsTable)
              => /\ Failed(hist[i])
                 /\ hist[i].err = Errorf("schema not found", NameOfComponentsRef(r), NoErr)
           /\ (IsDefinitionsRef(r) /\ NameOfDefinitionsRef(r) \notin DOMAIN spec.Definitions)
              => /\ Failed(hist[i])
                 /\ hist[i].err = Errorf("definition not found", NameOfDefinitionsRef(r), NoErr)

C5_Witness ==
    \E i, j \in Calls :
        /\ spec.Components = NoComponents
        /\ hist[i].before.Ref = rCUser /\ hist[i].err.msg = "schema not found"
        /\ hist[j].before.Ref = rDMissing /\ hist[j].err.msg = "definition not found"

PropertyFails(p) ==
    \/ p.Ref # EmptyStr /\ resolveRef(p.Ref).err # NoErr
    \/ /\ p.Items # NilTree
       /\ p.Items.Ref # EmptyStr
       /\ resolveRef(p.Items.Ref).err # NoErr

PropertyCause(p) ==
    IF p.Ref # EmptyStr /\ resolveRef(p.Ref).err # NoErr
    THEN resolveRef(p.Ref).err
    ELSE resolveRef(p.Items.Ref).err

FailingProperties(t) ==
    IF t.Properties = NilTree THEN {}
    ELSE {k \in DOMAIN t.Properties : PropertyFails(t.Properties[k])}

ElementFails(t) ==
    /\ t.Items # NilTree
    /\ t.Items.Ref # EmptyStr
    /\ resolveRef(t.Items.Ref).err # NoErr

(* C7: no partial success. When a property of an inline schema, or its     *)
(* array element type, does not resolve, ResolveSchema returns no schema   *)
(* and an error that wraps the cause and, for a property, names it.        *)
C7_NoPartialSuccess ==
    \A i \in Calls :
        LET t == hist[i].before
        IN t.Ref = EmptyStr =>
            /\ FailingProperties(t) # {} =>
                 /\ Failed(hist[i])
                 /\ hist[i].err.msg = "failed to resolve property"
                 /\ hist[i].err.arg \in FailingProperties(t)
                 /\ hist[i].err.cause = PropertyCause(t.Properties[hist[i].err.arg])
            /\ (FailingProperties(t) = {} /\ ElementFails(t)) =>
                 /\ Failed(hist[i])
                 /\ hist[i].err =
                       Errorf("failed to resolve items", <<>>, resolveRef(t.Items.Ref).err)

C7_Witness ==
    \E i, j \in Calls :
        /\ hist[i].arg = sA
        /\ hist[i].before.Ref = EmptyStr
        /\ FailingProperties(hist[i].before) = {}
        /\ ElementFails(hist[i].before)
        /\ hist[i].err.msg = "failed to resolve items"
        /\ hist[j].arg = sB
        /\ FailingProperties(hist[j].before) = {fId}
        /\ hist[j].err.msg = "failed to resolve property"

(* C8: ResolveSchema has no side effects. After a call, successful or      *)
(* failing, the input schema with its properties and items is what it was  *)
(* before the call, and so are the property maps of the definition tables. *)
(* The resolver violates it: it assigns schema.Properties and schema.Items *)
(* of its input.                                                           *)
C8_NoSideEffects ==
    Len(hist) > 0 =>
        LET h == hist[Len(hist)]
        IN h.op = "ResolveSchema" =>
            /\ SchemaTree(hs, hm, h.arg, MaxItemsDepth) = h.before
            /\ \A m \in {mAddress, mUser, mLegacyUser} : hm[m] = hm0[m]

(* C9: resolution is idempotent. A second ResolveSchema on the same        *)
(* schema object returns a tree equal to the one the first call returned.  *)
(* The resolver violates it for an array schema whose items reference a    *)
(* Definition with reference properties.                                   *)
C9_Idempotent ==
    \A i, j \in Calls :
        (i < j /\ hist[i].arg = hist[j].arg /\ Succeeded(hist[i])) =>
            /\ Succeeded(hist[j])
            /\ hist[j].tree = hist[i].tree

\* The objects of the heap that the definition tables own
TablesUnwritten ==
    /\ \A m \in {mAddress, mUser, mLegacyUser} : hm[m] = hm0[m]
    /\ hs[sUserTags] = hs0[sUserTags]

(* C10: when ResolveSchema and example generation run in parallel on       *)
(* distinct input schemas over one Spec, in any interleaving, the          *)
(* definition tables and their property maps are never written and every   *)
(* call returns what it returns alone.                                     *)
C10_ParallelCallsIndependent ==
    /\ TablesUnwritten
    /\ \A p \in DOMAIN procs : \A i \in 1..Len(procs[p].done) :
          procs[p].done[i].out \in procs[p].done[i].alone

C10_Witness ==
    /\ DOMAIN procs = Procs
    /\ Len(procs[1].done) = 2
    /\ \A i \in 1..2 : /\ procs[1].done[i].op = "ResolveSchema"
                       /\ procs[1].done[i].overlap
                       /\ procs[1].done[i].out.err = NoErr
    /\ procs[1].done[1].out.tree # procs[1].done[2].out.tree
    /\ \E i, j \in 1..Len(procs[2].done) :
          /\ procs[2].done[i].op = "ResolveSchema" /\ procs[2].done[i].overlap
          /\ procs[2].done[j].op = "buildExample" /\ procs[2].done[j].overlap
          /\ procs[2].done[j].arg = procs[2].done[i].res
          /\ procs[2].done[j].out.kind = "map"

----------------------------------------------------------------------------
\* The annotations a property carries besides its structure
Annotations(p) ==
    [Description |-> p.Description, Format |-> p.Format,
     Example |-> p.Example, MinLength |-> p.MinLength]

NoAnnotations ==
    [Description |-> "", Format |-> "", Example |-> NilValue, MinLength |-> 0]

(* C11: a resolved reference takes the structure of its target and drops   *)
(* the annotations of the referencing site: a resolved property that set   *)
(* $ref has the type of the target and no example, format, description or  *)
(* constraint of its own. The resolver violates it: resolveProperty        *)
(* overwrites Type only.                                                   *)
C11_SiblingAnnotationsDiscarded ==
    \A i \in Calls :
        (Succeeded(hist[i]) /\ hist[i].before.Ref = EmptyStr
                            /\ hist[i].before.Properties # NilTree) =>
            \A k \in DOMAIN hist[i].before.Properties :
                LET p == hist[i].before.Properties[k]
                    q == hist[i].tree.Properties[k]
                IN p.Ref # EmptyStr =>
                    /\ q.Type = resolveRef(p.Ref).schema.Type
                    /\ Annotations(q) = NoAnnotations

----------------------------------------------------------------------------
(* Vocabulary of the generator's properties. Under SpecGen the schema sA   *)
(* is ChainLen arrays around the leaf schema; the generator writes neither *)
(* hs nor hm.                                                              *)

GenCalls == {i \in 1..Len(hist) : hist[i].op = "buildExample"}

ChainLen == Len(hs) - 2

LeafSchema == hs[ChainLen + 1]

\* The leaf is built: buildExample reaches it at a depth within the guard
LeafReached == ChainLen <= MaxDepth

NoValue == [kind |-> "none"]

\* The value n one-element lists below v
RECURSIVE Unwrap(_, _)
Unwrap(v, n) ==
    IF n = 0 THEN v
    ELSE IF v.kind = "list" /\ Len(v.v) = 1 THEN Unwrap(v.v[1], n - 1)
    ELSE NoValue

LeafValue(i) == Unwrap(hist[i].val, ChainLen)

\* The leaf is an object schema with declared properties, and it is built
LeafIsObject ==
    LeafReached /\ LeafSchema.Type = "object" /\ LeafSchema.Properties # Nil

LeafProps == hm[LeafSchema.Properties]

\* The value of field k in the example of the leaf
FieldValue(i, k) ==
    IF LeafValue(i).kind = "map" /\ k \in DOMAIN LeafValue(i).v
    THEN LeafValue(i).v[k] ELSE NoValue

(* C12: explicit-example law. The example of a property that carries an    *)
(* explicit example is that value, whatever its type, format, $ref, items  *)
(* and field name are.                                                     *)
C12_ExplicitExampleLaw ==
    \A i \in GenCalls :
        LeafIsObject =>
            \A k \in DOMAIN LeafProps :
                LeafProps[k].Example # NilValue =>
                    FieldValue(i, k) = LeafProps[k].Example

C12_Witness ==
    \E i \in GenCalls :
        /\ LeafIsObject
        /\ ChainLen = MaxDepth
        /\ fUserEmail \in DOMAIN LeafProps
        /\ LeafProps[fUserEmail] = AnnotatedRefProp
        /\ FieldValue(i, fUserEmail) = StringValue(<<"10 Main St">>)

\* The reference can be resolved against the Spec
Resolvable(r) == r # EmptyStr /\ resolveRef(r).err = NoErr

\* v is an example of the structure of the Definition that r names: an
\* object with the fields of the Definition
IsExampleOfTarget(v, r) ==
    LET target == resolveRef(r).schema
    IN target.Type = "object" =>
          /\ v.kind = "map"
          /\ DOMAIN v.v = (IF target.Properties = Nil THEN {}
                           ELSE DOMAIN hm[target.Properties])

(* C13: the example of a property or schema that has a $ref to an existing *)
(* Definition, and no explicit example, is the example of the structure of *)
(* that Definition. The generator violates it: buildPropertyExample        *)
(* returns the placeholder without a lookup, and buildExample does not     *)
(* read schema.Ref at all.                                                 *)
C13_ReferenceResolvedInExample ==
    \A i \in GenCalls :
        /\ LeafIsObject =>
              \A k \in DOMAIN LeafProps :
                  (LeafProps[k].Example = NilValue /\ Resolvable(LeafProps[k].Ref)) =>
                      IsExampleOfTarget(FieldValue(i, k), LeafProps[k].Ref)
        /\ (LeafReached /\ Resolvable(LeafSchema.Ref)) =>
              IsExampleOfTarget(LeafValue(i), LeafSchema.Ref)

\* The name that a reference gives to its target: the text after the prefix,
\* its segments joined by "/" again
JoinSlash(name) ==
    [i \in 1..(2 * Len(name) - 1) |->
        IF i % 2 = 1 THEN name[(i + 1) \div 2] ELSE "/"]

TargetName(r) ==
    IF IsComponentsRef(r) THEN JoinSlash(NameOfComponentsRef(r))
    ELSE JoinSlash(NameOfDefinitionsRef(r))

\* Property k of the leaf is a reference without example that cannot be
\* resolved
Unresolved(k) ==
    /\ LeafProps[k].Example = NilValue
    /\ LeafProps[k].Ref # EmptyStr
    /\ ~Resolvable(LeafProps[k].Ref)

\* The field next to the varied one has its example
SiblingSynthesized(i) ==
    FieldValue(i, fStreet) = StringValue(<<"string">>)

(* C14 as stated: the example of a reference property whose target cannot  *)
(* be resolved is "<Name>" with Name the name of the target, that is the   *)
(* text after the prefix of the reference; no error, and the other fields  *)
(* have their examples.                                                    *)
C14_PlaceholderIsTargetName ==
    \A i \in GenCalls :
        LeafIsObject =>
            \A k \in DOMAIN LeafProps :
                (/\ Unresolved(k)
                 /\ IsComponentsRef(LeafProps[k].Ref) \/ IsDefinitionsRef(LeafProps[k].Ref))
                => /\ FieldValue(i, k) =
                        StringValue(<<"<">> \o TargetName(LeafProps[k].Ref) \o <<">">>)
                   /\ hist[i].err = NoErr
                   /\ SiblingSynthesized(i)

(* C14: the example of a reference property whose target cannot be         *)
(* resolved is "<Name>" with Name the text after the last "/" of the       *)
(* reference (all of it when it has no "/"); no error, and the other       *)
(* fields have their examples.                                             *)
C14_PlaceholderIsLastSegment ==
    \A i \in GenCalls :
        LeafIsObject =>
            \A k \in DOMAIN LeafProps :
                Unresolved(k) =>
                    LET r == LeafProps[k].Ref
                    IN /\ FieldValue(i, k) = StringValue(<<"<", r[Len(r)], ">">>)
                       /\ hist[i].err = NoErr
                       /\ SiblingSynthesized(i)

C14_Witness ==
    \E i \in GenCalls :
        /\ LeafIsObject
        /\ fName \in DOMAIN LeafProps
        /\ LeafProps[fName] = Prop("", rNested, Nil)
        /\ Unresolved(fName)
        /\ FieldValue(i, fName) = StringValue(<<"<", "Address", ">">>)
        /\ SiblingSynthesized(i)

\* v is a list of one element, the example of schema e built at depth d
IsSingleton(v, e, d) ==
    /\ v.kind = "list"
    /\ Len(v.v) = 1
    /\ v.v[1] = buildExample(hs, hm, e, d)

\* The depths of the array schemas of the chain that buildExample builds
BuiltArrays == {d \in 0..(ChainLen - 1) : d <= MaxDepth}

\* Every array schema of the chain has a one-element example
ArraySchemasLaw(i) ==
    \A d \in BuiltArrays :
        IsSingleton(Unwrap(hist[i].val, d), hs[d + 1].Items, d + 1)

\* Property k of the leaf is of array kind with an element type
IsArrayProperty(k) ==
    /\ LeafProps[k].Type = "array"
    /\ LeafProps[k].Ref = EmptyStr
    /\ LeafProps[k].Items # Nil

(* C15 as stated: the example of every array schema and of every array     *)
(* property with an element type E is a list of exactly one element, the   *)
(* example of E.                                                           *)
C15_ArrayLaw ==
    \A i \in GenCalls :
        /\ ArraySchemasLaw(i)
        /\ LeafIsObject =>
              \A k \in DOMAIN LeafProps :
                  IsArrayProperty(k) =>
                      IsSingleton(FieldValue(i, k), LeafProps[k].Items, ChainLen + 2)

(* C15: the example of every array schema with an element type E that is   *)
(* built (depth at most 10), and of every array property with an element   *)
(* type E and without explicit example, is a list of exactly one element,  *)
(* the example of E one level deeper.                                      *)
C15_ArrayLawWithoutExample ==
    \A i \in GenCalls :
        /\ ArraySchemasLaw(i)
        /\ LeafIsObject =>
              \A k \in DOMAIN LeafProps :
                  (IsArrayProperty(k) /\ LeafProps[k].Example = NilValue) =>
                      IsSingleton(FieldValue(i, k), LeafProps[k].Items, ChainLen + 2)

C15_Witness ==
    \E i \in GenCalls :
        /\ ChainLen = 2
        /\ LeafIsObject
        /\ fName \in DOMAIN LeafProps
        /\ IsArrayProperty(fName)
        /\ LeafProps[fName].Example = NilValue
        /\ hist[i].val = ListValue(<<ListValue(<<MapValue(
              (fName :> ListValue(<<MapValue(fId :> IntValue(0))>>)) @@
              (fStreet :> StringValue(<<"string">>)))>>)>>)

\* The names that the leaf schema declares
Declared ==
    IF LeafSchema.Properties = Nil THEN {} ELSE DOMAIN hm[LeafSchema.Properties]

(* C16: the example of an object schema is a mapping whose keys are        *)
(* exactly the declared property names, each with the example of its own   *)
(* property, whatever the other properties are.                            *)
C16_ObjectExample ==
    \A i \in GenCalls :
        (LeafReached /\ LeafSchema.Type = "object") =>
            /\ LeafValue(i).kind = "map"
            /\ DOMAIN LeafValue(i).v = Declared
            /\ \A k \in Declared :
                  LeafValue(i).v[k] =
                      buildPropertyExample(hs, hm, k, LeafProps[k], ChainLen + 1)
            /\ fStreet \in Declared => SiblingSynthesized(i)

C16_Witness ==
    \E i \in GenCalls :
        /\ ChainLen = 0
        /\ LeafIsObject
        /\ Declared = {fUserID, fStreet}
        /\ LeafProps[fUserID] = Prop("", EmptyStr, Nil)
        /\ hist[i].val = MapValue((fUserID :> NilValue) @@
                                  (fStreet :> StringValue(<<"string">>)))

\* Property k of the leaf is of string kind without explicit example
IsStringProperty(k) ==
    /\ LeafProps[k].Type = "string"
    /\ LeafProps[k].Ref = EmptyStr
    /\ LeafProps[k].Example = NilValue

\* The literal of a string property by the first rule that matches; lower
\* tells which of the three tests on the field name ignore case
StringRule(fieldName, format, lower) ==
    LET Has(sub, ignoreCase) ==
            Contains(IF ignoreCase THEN ToLower(fieldName) ELSE fieldName, sub)
    IN IF format = "date" THEN <<"2024-01-15">>
       ELSE IF format = "date-time" THEN <<"2024-01-15T10:30:00Z">>
       ELSE IF format = "email" \/ Has(<<"e", "m", "a", "i", "l">>, "email" \in lower)
       THEN <<"user@example.com">>
       ELSE IF Has(<<"n", "a", "m", "e">>, "name" \in lower)
       THEN <<"Sample ">> \o fieldName
       ELSE IF Has(<<"i", "d">>, "id" \in lower)
       THEN <<"123e4567-e89b-12d3-a456-426614174000">>
       ELSE <<"string">>

(* C17 as stated: the example of a string property without explicit        *)
(* example follows the rule order date, date-time, email (format, or field *)
(* name containing "email" in any case), field name containing "name",     *)
(* field name containing "id", otherwise "string".                         *)
C17_StringRulesAsStated ==
    \A i \in GenCalls :
        LeafIsObject =>
            \A k \in DOMAIN LeafProps :
                IsStringProperty(k) =>
                    FieldValue(i, k) =
                        StringValue(StringRule(k, LeafProps[k].Format, {"email"}))

(* C17: the same rule order, with all three tests on the field name        *)
(* ignoring case ("email", "name", "id"); "Sample <FieldName>" carries the *)
(* field name as it is written.                                            *)
C17_StringRules ==
    \A i \in GenCalls :
        LeafIsObject =>
            \A k \in DOMAIN LeafProps :
                IsStringProperty(k) =>
                    FieldValue(i, k) =
                        StringValue(StringRule(k, LeafProps[k].Format,
                                               {"email", "name", "id"}))

C17_Witness ==
    \E i \in GenCalls :
        /\ LeafIsObject
        /\ fFirstName \in DOMAIN LeafProps
        /\ IsStringProperty(fFirstName)
        /\ LeafProps[fFirstName].Format = ""
        /\ FieldValue(i, fFirstName) = StringValue(<<"Sample ">> \o fFirstName)

KnownTypes == {"object", "array", "string", "integer", "number", "boolean"}

\* v is the default of a node of the given type that declares no properties
IsDefaultOf(v, type) ==
    /\ type = "integer" => v = IntValue(0)
    /\ type = "number" => (v.kind \in {"int", "float"} /\ v.v = 0)
    /\ type = "boolean" => v = BoolValue(FALSE)
    /\ type = "object" => v = MapValue(<<>>)
    /\ type \notin KnownTypes => v = NilValue

\* The leaf schema, when it is built, has the default of its type
LeafSchemaDefault(i) ==
    (LeafReached /\ LeafSchema.Ref = EmptyStr /\ LeafSchema.Properties = Nil) =>
        IsDefaultOf(LeafValue(i), LeafSchema.Type)

(* C18 as stated: an integer or number node gives 0, a boolean node false, *)
(* an object node without declared properties the empty mapping, a node of *)
(* unknown or unset type null, for schemas and for properties.             *)
C18_ScalarDefaults ==
    \A i \in GenCalls :
        /\ LeafSchemaDefault(i)
        /\ LeafIsObject =>
              \A k \in DOMAIN LeafProps :
                  LeafProps[k].Ref = EmptyStr =>
                      IsDefaultOf(FieldValue(i, k), LeafProps[k].Type)

(* C18: the same defaults, for schemas that are built (depth at most 10)   *)
(* and for properties without explicit example.                            *)
C18_ScalarDefaultsWithoutExample ==
    \A i \in GenCalls :
        /\ LeafSchemaDefault(i)
        /\ LeafIsObject =>
              \A k \in DOMAIN LeafProps :
                  (LeafProps[k].Ref = EmptyStr /\ LeafProps[k].Example = NilValue) =>
                      IsDefaultOf(FieldValue(i, k), LeafProps[k].Type)

C18_Witness ==
    \E i \in GenCalls :
        /\ ChainLen = 3
        /\ LeafIsObject
        /\ fNameId \in DOMAIN LeafProps
        /\ LeafProps[fNameId] = Prop("number", EmptyStr, Nil)
        /\ hist[i].val = ListValue(<<ListValue(<<ListValue(<<MapValue(
              (fNameId :> IntValue(0)) @@
              (fStreet :> StringValue(<<"string">>)))>>)>>)>>)

\* The Definition that the reference r names in the table of its dialect
HasTarget(r) ==
    \/ IsComponentsRef(r) /\ NameOfComponentsRef(r) \in DOMAIN ComponentsTable
    \/ IsDefinitionsRef(r) /\ NameOfDefinitionsRef(r) \in DOMAIN spec.Definitions

TargetOf(r) ==
    IF IsComponentsRef(r) THEN ComponentsTable[NameOfComponentsRef(r)]
    ELSE spec.Definitions[NameOfDefinitionsRef(r)]

\* D is the object Definition with the fields {id: integer, name: string}
IsIdNameDefinition(def) ==
    /\ def.Type = "object"
    /\ def.Ref = EmptyStr
    /\ DefinitionTree(def).Properties =
          (fId :> PropertyTree(hs0, hm0, Prop("integer", EmptyStr, Nil), MaxItemsDepth)) @@
          (fName :> PropertyTree(hs0, hm0, Prop("string", EmptyStr, Nil), MaxItemsDepth))

\* Call j builds the example of what call i resolved
ExampleOfResolved(i, j) ==
    /\ i \in Calls /\ j \in GenCalls /\ i < j
    /\ Succeeded(hist[i])
    /\ hist[j].arg = hist[i].res

(* C19: round trip. The example of the schema that ResolveSchema returns   *)
(* for a reference to the Definition {id: integer, name: string} is the    *)
(* mapping {id -> 0, name -> "Sample name"}.                               *)
C19_RoundTrip ==
    \A i \in Calls :
        (HasTarget(hist[i].before.Ref) /\ IsIdNameDefinition(TargetOf(hist[i].before.Ref))) =>
            /\ Succeeded(hist[i])
            /\ \A j \in GenCalls :
                  ExampleOfResolved(i, j) =>
                      hist[j].val = MapValue((fId :> IntValue(0)) @@
                                             (fName :> StringValue(<<"Sample ">> \o fName)))

C19_Witness ==
    \E i \in Calls, j \in GenCalls :
        /\ hist[i].before.Ref = rDUser
        /\ nUser \in DOMAIN spec.Definitions
        /\ IsIdNameDefinition(spec.Definitions[nUser])
        /\ ExampleOfResolved(i, j)
        /\ DOMAIN hist[j].val.v = {fId, fName}
        /\ hist[j].val.v[fName] = StringValue(<<"Sample ", "n", "a", "m", "e">>)

\* Every node of the value v, itself at depth d, that lies at a depth
\* beyond MaxDepth is null
RECURSIVE NullBeyondGuard(_, _)
NullBeyondGuard(v, d) ==
    IF d > MaxDepth THEN v = NilValue
    ELSE CASE v.kind = "list" ->
                \A n \in DOMAIN v.v : NullBeyondGuard(v.v[n], d + 1)
           [] v.kind = "map" ->
                \A k \in DOMAIN v.v : NullBeyondGuard(v.v[k], d + 1)
           [] OTHER -> TRUE

(* C20: depth guard. In a synthesized value every node at depth 11 or more *)
(* is null. The generator violates it: buildObjectExample passes depth 11  *)
(* to buildPropertyExample, which has no test of the depth.                *)
C20_DepthGuard ==
    \A i \in GenCalls : NullBeyondGuard(hist[i].val, 0)

----------------------------------------------------------------------------
(* Termination *)

JSONKinds == {"nil", "string", "int", "float", "bool", "list", "map"}

\* The calls of GenerateExampleJSON that have returned
Walked == {i \in 1..Len(procs[1].done) : procs[1].done[i].op = "buildExample"}

(* C21: the generator never raises and always terminates. Every call of    *)
(* GenerateExampleJSON, also on a nil schema and on a schema whose         *)
(* pointers lead back to it, returns, and what it returns is a JSON value. *)
C21_GeneratorTerminates ==
    /\ (procs[1].op = "walk") ~> (procs[1].op = "idle")
    /\ [](\A i \in Walked : procs[1].done[i].out.kind \in JSONKinds)

C21_Witness ==
    \E i, j \in Walked :
        /\ hs[sB] = Sch("array", EmptyStr, Nil, sB)
        /\ procs[1].done[i].arg = sB
        /\ procs[1].done[i].out.kind = "list"
        /\ procs[1].done[j].arg = Nil
        /\ procs[1].done[j].out = NilValue

\* The calls of ResolveSchema that have returned
Resolved == {i \in 1..Len(procs[1].done) : procs[1].done[i].op = "ResolveSchema"}

(* C29: ResolveSchema terminates on a parsed document whose definition     *)
(* table is cyclic. Every call returns, and its recursion is never deeper  *)
(* than the document has schemas: no reference is followed further than    *)
(* its own target.                                                         *)
C29_ResolveTerminates ==
    /\ (procs[1].op = "resolve") ~> (procs[1].op = "idle")
    /\ [](Len(procs[1].stack) <= Len(hs0))

C29_Witness ==
    \E i, j \in Resolved :
        /\ i < j
        /\ hs0[sA].Ref = RefTo(nAliasA)
        /\ procs[1].done[i].out.err = NoErr
        /\ procs[1].done[j].out.err = NoErr

----------------------------------------------------------------------------
(* Names of references *)

\* The reference of call i is of a supported form and the input is the
\* reference itself, so that the call looks its name up
LooksUp(i) ==
    LET r == hist[i].before.Ref
    IN r # EmptyStr /\ (IsComponentsRef(r) \/ IsDefinitionsRef(r))

\* The segments of the text after the prefix
NameSegments(r) ==
    IF IsComponentsRef(r) THEN NameOfComponentsRef(r) ELSE NameOfDefinitionsRef(r)

TableOf(r) ==
    IF IsComponentsRef(r) THEN ComponentsTable ELSE spec.Definitions

\* Call i looked the name n up: it found the Definition n of the table, or
\* it reports that n is not there
LookedUp(i, n) ==
    IF Succeeded(hist[i])
    THEN n \in DOMAIN TableOf(hist[i].before.Ref)
         /\ hist[i].tree.Type = TableOf(hist[i].before.Ref)[n].Type
    ELSE hist[i].err.arg = n

\* A string without "/" is its own name
BareNameIsItself(i) ==
    LET r == hist[i].before.Ref
    IN (r # EmptyStr /\ Len(r) = 1) => ExtractRefName(r) = r[1]

(* C30 as stated: for every reference of a supported form the name that    *)
(* ExtractRefName returns is the name that resolveRef looks up; for a      *)
(* string without "/" ExtractRefName returns the string.                   *)
C30_NamesAgree ==
    \A i \in Calls :
        /\ LooksUp(i) => LookedUp(i, <<ExtractRefName(hist[i].before.Ref)>>)
        /\ BareNameIsItself(i)

(* C30: the two names agree for every reference of a supported form whose  *)
(* name has no "/"; when it has one, resolveRef looks up the whole text    *)
(* after the prefix and ExtractRefName returns its last segment. For a     *)
(* string without "/" ExtractRefName returns the string.                   *)
C30_NamesAgreeWithoutSlash ==
    \A i \in Calls :
        LET r == hist[i].before.Ref
        IN /\ LooksUp(i) =>
                /\ LookedUp(i, NameSegments(r))
                /\ ExtractRefName(r) = NameSegments(r)[Len(NameSegments(r))]
                /\ Len(NameSegments(r)) = 1 => LookedUp(i, <<ExtractRefName(r)>>)
           /\ BareNameIsItself(i)

C30_Witness ==
    \E i \in Calls :
        /\ hist[i].before.Ref = rNested
        /\ Failed(hist[i])
        /\ hist[i].err.arg = <<"User", "Address">>
        /\ ExtractRefName(rNested) = "Address"

----------------------------------------------------------------------------
(* Titles *)

tGetUser == <<"G", "e", "t", " ", "U", "s", "e", "r">>
tPOSTUsers == <<"P", "O", "S", "T", " ", "U", "s", "e", "r", "s">>
tGETRoot == <<"G", "E", "T", " ", "R", "o", "o", "t">>

\* the endpoints that Convert works on, once Parse has returned
Endpoints == IF conv.pc \in {"Parse", "off"} THEN <<>> ELSE conv.endpoints

\* what the operation IDs of the documents read as
Humanized ==
    (oGetUser :> tGetUser) @@ (oList :> tList) @@ (oCreate_user :> tCreateUser)

\* what the method and path of the operations without summary and ID
\* read as
PathTitles ==
    (<<kPost, pUsers>> :> tPOSTUsers) @@ (<<kGET, pRoot>> :> tGETRoot)

TitledBySummary(e) == e.Operation.Summary # <<>>
TitledByID(e) == e.Operation.Summary = <<>> /\ e.Operation.OperationID # <<>>
TitledByPath(e) == e.Operation.Summary = <<>> /\ e.Operation.OperationID = <<>>

(* C28: the title of an endpoint is the summary of its operation when that *)
(* is non-empty; otherwise the operation ID made readable when that is     *)
(* non-empty; otherwise the method in upper case followed by the segments  *)
(* of the path, or by Root when the path has none.                         *)
C28_TitlePriority ==
    \A i \in 1..Len(Endpoints) :
        LET e == Endpoints[i]
        IN  /\ TitledBySummary(e) => e.Title = e.Operation.Summary
            /\ TitledByID(e) =>
                 /\ e.Operation.OperationID \in DOMAIN Humanized
                 /\ e.Title = Humanized[e.Operation.OperationID]
            /\ TitledByPath(e) =>
                 /\ <<e.Method, e.Path>> \in DOMAIN PathTitles
                 /\ e.Title = PathTitles[<<e.Method, e.Path>>]

C28_Witness ==
    /\ \E i \in 1..Len(Endpoints) :
          TitledByID(Endpoints[i]) /\ Endpoints[i].Title = tCreateUser
    /\ \E i \in 1..Len(Endpoints) :
          TitledByPath(Endpoints[i]) /\ Endpoints[i].Title = tGETRoot
    /\ \E i \in 1..Len(Endpoints) :
          TitledByPath(Endpoints[i]) /\ Endpoints[i].Title = tPOSTUsers

----------------------------------------------------------------------------
(* Runs of Convert *)

Events(o) == {i \in 1..Len(hist) : hist[i].op = o}
Processed == Events("processEndpoint")

\* the schema that the page of endpoint e shows: the one of the body
\* parameter if there is one, else the one of the requestBody
BodyOf(e) ==
    IF e.Operation.BodyParam # Nil THEN e.Operation.BodyParam
    ELSE e.Operation.RequestBody

\* the body of endpoint e does not resolve in the document as loaded
BodyFails(e) ==
    /\ BodyOf(e) # Nil
    /\ \A o \in ResolveSchema(hs0, hm0, BodyOf(e), MaxItemsDepth) : o.err # NoErr

\* the events of call number n of caller c
OfCall(c, n) == {i \in 1..Len(hist) :
                    /\ hist[i].op \in {"print", "GET", "POST", "PUT", "return"}
                    /\ hist[i].by = c
                    /\ hist[i].call = n}

\* the call of CreateOrUpdatePage that the event i of processEndpoint makes
\* is the next call of caller 1: the parent page is call 1
CallOfEndpoint(i) == hist[i].i + 1

\* the page of the event i was printed, or the backend has accepted it
Published(i) ==
    \E j \in OfCall(1, CallOfEndpoint(i)) :
        \/ hist[j].op = "print" /\ hist[j].content = hist[i].content
        \/ /\ hist[j].op \in {"POST", "PUT"}
           /\ hist[j].ok
           /\ hist[j].page.Content = hist[i].content

\* the call that the event i makes is under way with the page of the event
UnderWay(i) ==
    /\ client[1].pc \in {"find", "write"}
    /\ client[1].calls = CallOfEndpoint(i)
    /\ client[1].content = hist[i].content

\* the call that the event i makes has returned the error of a request
RequestFailed(i) ==
    \E j, k \in OfCall(1, CallOfEndpoint(i)) :
        /\ hist[j].op \in {"GET", "POST", "PUT"}
        /\ ~hist[j].ok
        /\ hist[k].op = "return"
        /\ hist[k].err # NoErr

ConvertDone == conv.pc = "done"

\* Convert returned an error that a call of the backend or the fetch of the
\* document caused
CauseOf(err) == IF err.cause = NoErr THEN err ELSE err.cause

(* C22: a resolver error stays inside the resolve call. The page of an     *)
(* endpoint whose body schema does not resolve is still formatted, with    *)
(* the heading of the body section but no table and no example, and        *)
(* published like any other page: printed, or accepted by the backend      *)
(* unless a request of its call fails. When Convert returns an error, a    *)
(* request has failed or the document could not be fetched; and when it    *)
(* returns nil, it has processed every endpoint.                           *)
C22_ResolverErrorNotFatal ==
    /\ \A i \in Processed :
          BodyFails(conv.endpoints[hist[i].i]) =>
             /\ hist[i].content.body =
                   [heading |-> TRUE, tables |-> <<>>, example |-> NoExample]
             /\ Published(i) \/ UnderWay(i) \/ RequestFailed(i)
    /\ ConvertDone /\ conv.err # NoErr =>
          \/ conv.err.msg = "failed to parse swagger"
          \/ \E j \in Events("GET") \cup Events("POST") \cup Events("PUT") :
                ~hist[j].ok
    /\ ConvertDone /\ conv.err = NoErr =>
          {hist[i].i : i \in Processed} = 1..Len(conv.endpoints)

\* a run that no request failed in: the body of the second of three
\* endpoints did not resolve, all three were processed and Convert
\* returned nil
C22_Witness ==
    /\ ConvertDone
    /\ conv.err = NoErr
    /\ cfg.Enabled
    /\ Len(conv.endpoints) = 3
    /\ BodyFails(conv.endpoints[2])
    /\ \E i \in Processed : hist[i].i = 2 /\ Published(i)
    /\ \E i \in Processed : hist[i].i = 3 /\ Published(i)

(* C23: cancellation is checked between endpoints. No endpoint is started  *)
(* once the context of Convert is cancelled, with Confluence and in local  *)
(* preview alike. Convert violates it: its loop never reads ctx, so in     *)
(* local preview every remaining endpoint is processed and printed, and    *)
(* with Confluence the next endpoint is formatted and only its first       *)
(* request fails.                                                          *)
C23_NoEndpointAfterCancel ==
    \A i \in Processed : hist[i].ctx = "live"

\* the return of the parent page's call, the first call of Convert
ParentReturns == {i \in OfCall(1, 1) : hist[i].op = "return"}

\* the page in the space that has the title of the parent page
IsParentPage(id) ==
    \E i \in 1..Len(backend.pages) :
        /\ backend.pages[i].ID = id
        /\ backend.pages[i].Title = ParentTitle(spec.Info.Title)

\* the events of the calls for endpoint pages
EndpointEvents ==
    {i \in 1..Len(hist) :
        \/ hist[i].op = "processEndpoint"
        \/ /\ hist[i].op \in {"print", "GET", "POST", "PUT"}
           /\ hist[i].by = 1
           /\ hist[i].call > 1}

(* C24: in a run of Convert nothing is done for an endpoint before the     *)
(* call for the parent page has returned without error; every endpoint     *)
(* page sent to the backend names as its one ancestor the ID that call     *)
(* returned, which is the ID of the parent page in the space; and when the *)
(* call for the parent page fails, Convert returns the error and no        *)
(* endpoint is processed.                                                  *)
C24_ParentFirst ==
    /\ \A i \in EndpointEvents :
          \E r \in ParentReturns : r < i /\ hist[r].err = NoErr
    /\ \A i \in EndpointEvents :
          hist[i].op \in {"POST", "PUT"} =>
             \E r \in ParentReturns :
                /\ hist[i].page.Ancestors = <<hist[r].id>>
                /\ IsParentPage(hist[r].id)
    /\ \A r \in ParentReturns :
          hist[r].err # NoErr /\ conv.pc # "ParentReturned" =>
             /\ ConvertDone
             /\ conv.err.msg = "failed to create parent page"
             /\ EndpointEvents = {}

\* a finished run in a space that an earlier run has filled: the parent
\* page was updated, a page was created and one updated under it
C24_Witness ==
    /\ ConvertDone
    /\ conv.err = NoErr
    /\ \E r \in ParentReturns : hist[r].id = 1
    /\ \E i, j \in EndpointEvents :
          /\ hist[i].op = "POST" /\ hist[i].ok /\ hist[i].page.Ancestors = <<1>>
          /\ hist[j].op = "PUT" /\ hist[j].ok /\ hist[j].page.Ancestors = <<1>>

\* the (path, method) entries of the document whose key is a method
MethodEntries ==
    {<<p, m>> \in UNION {{<<p, m>> : m \in DOMAIN spec.Paths[p]} : p \in DOMAIN spec.Paths} :
        ToLower(m) \in validMethods}

\* ways to give every endpoint a page of the space with its title, no page
\* given twice
PagePerEndpoint ==
    {f \in [1..Len(Endpoints) -> 1..Len(backend.pages)] :
        /\ \A i, j \in 1..Len(Endpoints) : i # j => f[i] # f[j]
        /\ \A i \in 1..Len(Endpoints) :
              backend.pages[f[i]].Title = Endpoints[i].Title}

(* C25: a separate page for each endpoint. ExtractEndpoints returns one    *)
(* endpoint for each (path, method) entry whose key is an HTTP method and  *)
(* no other, and after a successful run of Convert with Confluence the     *)
(* space holds a page of its own for every endpoint, also for two          *)
(* endpoints with the same title. Convert violates the second part: pages  *)
(* are looked up by title, so the second endpoint of a title updates the   *)
(* page of the first.                                                      *)
C25_PagePerEndpoint ==
    /\ Endpoints # <<>> =>
          /\ {<<Endpoints[i].Path, Endpoints[i].Method>> : i \in 1..Len(Endpoints)}
                = MethodEntries
          /\ Len(Endpoints) = Cardinality(MethodEntries)
    /\ ConvertDone /\ conv.err = NoErr /\ cfg.Enabled => PagePerEndpoint # {}

Requests == Events("GET") \cup Events("POST") \cup Events("PUT")

\* the calls of CreateOrUpdatePage that caller c has made
CallsOf(c) == 1..client[c].calls

\* call n of caller c has printed its page and returned "" and nil, and
\* nothing else
PrintedOnly(c, n) ==
    \E i, j \in OfCall(c, n) :
        /\ OfCall(c, n) = {i, j}
        /\ j = i + 1
        /\ hist[i].op = "print"
        /\ hist[j].op = "return"
        /\ hist[j].id = NoID
        /\ hist[j].err = NoErr

----------------------------------------------------------------------------
(* Publishers *)

Writes == Events("POST") \cup Events("PUT")

\* the events of kind o in call n of caller c
In(c, n, o) == {i \in OfCall(c, n) : hist[i].op = o}

\* call n of caller c does what CreateOrUpdatePage promises
LookupThenOneWrite(c, n) ==
    LET gets == In(c, n, "GET")
        writes == In(c, n, "POST") \cup In(c, n, "PUT")
        returns == In(c, n, "return")
    IN  /\ Cardinality(gets) <= 1
        /\ Cardinality(writes) <= 1
        /\ \A w \in writes : \E g \in gets :
              /\ g < w
              /\ hist[g].ok
              /\ IF hist[g].id # NoID
                 THEN /\ hist[w].op = "PUT"
                      /\ hist[w].page.ID = hist[g].id
                      /\ hist[w].page.Version = hist[g].version + 1
                 ELSE hist[w].op = "POST"
        /\ \A g \in gets : ~hist[g].ok =>
              /\ writes = {}
              /\ \E r \in returns :
                    /\ hist[r].id = NoID
                    /\ hist[r].err.msg = "failed to check existing page"
        /\ \A r \in returns : \A g \in gets : hist[g].ok =>
              \E w \in writes :
                 /\ w < r
                 /\ hist[r].err = NoErr <=> hist[w].ok

\* two updates of one page that carry the same version number
SameRead(i, j) ==
    /\ i # j
    /\ hist[i].op = "PUT"
    /\ hist[j].op = "PUT"
    /\ hist[i].page.ID = hist[j].page.ID
    /\ hist[i].page.Version = hist[j].page.Version

====
